---- MODULE Spec2Model ----
(***************************************************************************)
(* A model of hwpx_writer.py: the converter from a Pandoc JSON AST to an   *)
(* HWPX package.                                                           *)
(*                                                                         *)
(* Text is a sequence of Unicode code points, so that the width rule of    *)
(* compute_lineseg_xml (ord(ch) > 0x2000) and the string operations of the *)
(* builders act on what the code acts on.  An XML string the code builds   *)
(* is modelled by the record of the values the code formats into it.       *)
(***************************************************************************)
EXTENDS Integers, Sequences, FiniteSets, TLC

VARIABLES
    \* compute_lineseg_xml
    text,             \* the text argument
    char_height,      \* the char_height argument
    horzsize,         \* the horzsize argument
    lineseg,          \* the returned segments
    \* the Table branch of convert_blocks
    table,            \* the c of a Table block
    all_rows,         \* the normalized grid
    col_count,        \* its column count
    \* convert_blocks and build_section_xml
    blocks,           \* the block list to convert
    meta,             \* title, subtitle, author and date of the title block
    indent_level,     \* the indent_level argument
    id_before,        \* _para_id_counter when the conversion started
    para_id_counter,  \* _para_id_counter, as its distance from the seed
    content,          \* the elements produced, in document order
    nesting,          \* the containers around the paragraph followed, if any
    \* update_header_xml
    header_xml,       \* the header.xml given
    new_header_xml,   \* the header.xml returned
    \* the repackaging of main
    skeleton,         \* the parts of Skeleton.hwpx, in archive order
    built,            \* section_xml, updated_hpf and updated_header
    tmp_file,         \* the file at tmp_path
    output_file,      \* the file at output_path
    prior_output,     \* the file at output_path when main started
    \* latex_to_hwp_script
    latex,            \* the latex argument
    script,           \* the script returned for it
    script_again,     \* the script returned for that script
    \* update_content_hpf
    hpf_xml,          \* the content.hpf given
    hpf_args,         \* title, author and date_str
    new_hpf_xml,      \* the content.hpf returned
    pc                \* the position of the operation under study

varsLineseg == <<text, char_height, horzsize, lineseg>>
varsTable   == <<table, all_rows, col_count>>
varsConvert == <<blocks, meta, indent_level, id_before, para_id_counter, content,
                 nesting>>

varsHeader  == <<header_xml, new_header_xml>>
varsPackage == <<skeleton, built, tmp_file, output_file, prior_output>>

varsMath    == <<latex, script, script_again>>
varsHpf     == <<hpf_xml, hpf_args, new_hpf_xml>>

vars == <<varsLineseg, varsTable, varsConvert, varsHeader, varsPackage, varsMath,
          varsHpf, pc>>

(***************************************************************************)
(* Bounds of the model.                                                    *)
(***************************************************************************)
MaxTextLen == 4
\* A conversion starts only while _para_id_counter is at most this far from
\* its seed.
MaxCounter == 1
\* The most cells in a row and the most rows in a table body of the tables
\* the grid is tried on.
MaxCols == 2
MaxRows == 2

(***************************************************************************)
(* Code points of the texts the layout metrics are tried on.                *)
(***************************************************************************)
\* 'A' (narrow), U+2000 (the largest code point counted narrow) and U+AC00
\* (a Hangul syllable, wide).
LinesegChars == {65, 8192, 44032}

WIDE_THRESHOLD == 8192  \* 0x2000

(***************************************************************************)
(* Layout constants.                                                       *)
(***************************************************************************)
PAGE_TEXT_WIDTH    == 42520
CHAR_HEIGHT_NORMAL == 1000
LINE_SPACING_PCT   == 160

FLAGS_FIRST_LAST == 393216   \* 0x60000
FLAGS_FIRST      == 131072   \* 0x20000
FLAGS_LAST       == 262144   \* 0x40000
FLAGS_NONE       == 0

(***************************************************************************)
(* The values of the variables an operation under study does not use.      *)
(***************************************************************************)
IdleLineseg == text = <<>> /\ char_height = CHAR_HEIGHT_NORMAL
               /\ horzsize = PAGE_TEXT_WIDTH /\ lineseg = <<>>
IdleTable   == table = <<>> /\ all_rows = <<>> /\ col_count = 0
IdleConvert == blocks = <<>> /\ meta = <<>> /\ indent_level = 0
               /\ id_before = 0 /\ para_id_counter = 0 /\ content = <<>>
               /\ nesting = <<>>
IdleHeader  == header_xml = <<>> /\ new_header_xml = <<>>
IdlePackage == skeleton = <<>> /\ built = <<>> /\ tmp_file = <<>>
               /\ output_file = <<>> /\ prior_output = <<>>
IdleMath    == latex = <<>> /\ script = <<>> /\ script_again = <<>>
IdleHpf     == hpf_xml = <<>> /\ hpf_args = <<>> /\ new_hpf_xml = <<>>

(***************************************************************************)
(* compute_lineseg_xml                                                     *)
(***************************************************************************)

\* The width one character adds to the running width of its line.
CharWidth(ch, h) == IF ch > WIDE_THRESHOLD THEN h ELSE h \div 2

\* The loop as it would be if a new line started at the offset i of the
\* character that overflowed instead of at i + 1.
RECURSIVE LineStartsLoop_AtI(_, _, _, _, _, _)
LineStartsLoop_AtI(txt, k, current_width, line_starts, h, hsize) ==
    IF k > Len(txt) THEN line_starts
    ELSE LET w == current_width + CharWidth(txt[k], h)
         IN  IF w > hsize /\ k < Len(txt)
             THEN LineStartsLoop_AtI(txt, k + 1, 0, Append(line_starts, k - 1), h, hsize)
             ELSE LineStartsLoop_AtI(txt, k + 1, w, line_starts, h, hsize)

\* The for loop over enumerate(text): k is the 1-based position of the
\* character looked at, so the code's i is k - 1 and its i + 1 is k.
RECURSIVE LineStartsLoop(_, _, _, _, _, _)
LineStartsLoop(txt, k, current_width, line_starts, h, hsize) ==
    IF k > Len(txt) THEN line_starts
    ELSE LET w == current_width + CharWidth(txt[k], h)
         IN  IF w > hsize /\ k < Len(txt)
             THEN LineStartsLoop(txt, k + 1, 0, Append(line_starts, k), h, hsize)
             ELSE LineStartsLoop(txt, k + 1, w, line_starts, h, hsize)

LineStarts(txt, h, hsize) == LineStartsLoop(txt, 1, 0, <<0>>, h, hsize)

SegFlags(idx, num_lines) ==
    IF num_lines = 1 THEN FLAGS_FIRST_LAST
    ELSE IF idx = 0 THEN FLAGS_FIRST
    ELSE IF idx = num_lines - 1 THEN FLAGS_LAST
    ELSE FLAGS_NONE

LineSeg(textpos, vertpos, h, pct, hsize, flags) ==
    [textpos    |-> textpos,
     vertpos    |-> vertpos,
     vertsize   |-> h,
     textheight |-> h,
     baseline   |-> (h * 85) \div 100,
     spacing    |-> (h * (pct - 100)) \div 100,
     horzpos    |-> 0,
     horzsize   |-> hsize,
     flags      |-> flags]

compute_lineseg_xml(txt, h, pct, hsize) ==
    LET spacing     == (h * (pct - 100)) \div 100
        line_height == h + spacing
    IN  IF txt = <<>>
        THEN << LineSeg(0, 0, h, pct, hsize, FLAGS_FIRST_LAST) >>
        ELSE LET line_starts == LineStarts(txt, h, hsize)
                 num_lines   == Len(line_starts)
             IN  [j \in 1..num_lines |->
                     LineSeg(line_starts[j], (j - 1) * line_height, h, pct,
                             hsize, SegFlags(j - 1, num_lines))]

(***************************************************************************)
(* Specification of the layout metrics: the arguments are drawn in Init    *)
(* and ComputeLineseg applies the function to them.                        *)
(***************************************************************************)
LinesegHeights == {1, 3, CHAR_HEIGHT_NORMAL, 2200}
LinesegWidths  == {1, 2, CHAR_HEIGHT_NORMAL, 1500, PAGE_TEXT_WIDTH}

SeqsUpTo(S, n) == UNION {[1..m -> S] : m \in 0..n}

InitLineseg ==
    /\ text \in SeqsUpTo(LinesegChars, MaxTextLen)
    /\ char_height \in LinesegHeights
    /\ horzsize \in LinesegWidths
    /\ lineseg = <<>>
    /\ IdleTable /\ IdleConvert /\ IdleHeader /\ IdlePackage
    /\ IdleMath /\ IdleHpf
    /\ pc = "start"

ComputeLineseg ==
    /\ pc = "start"
    /\ lineseg' = compute_lineseg_xml(text, char_height, LINE_SPACING_PCT, horzsize)
    /\ pc' = "done"
    /\ UNCHANGED <<text, char_height, horzsize, varsTable, varsConvert, varsHeader,
                 varsPackage, varsMath, varsHpf>>

NextLineseg == ComputeLineseg

SpecLineseg == InitLineseg /\ [][NextLineseg]_vars

(***************************************************************************)
(* Properties of the layout metrics.                                       *)
(***************************************************************************)
HasBit(flags, bit) == (flags \div bit) % 2 = 1

\* C1: for every text (empty or not), every positive char_height and every
\* positive page width, compute_lineseg_xml returns at least one segment; the
\* first segment's text offset is 0; text offsets strictly increase from one
\* segment to the next; exactly one segment carries the 'first' bit and it
\* is the first one; exactly one carries the 'last' bit and it is the final
\* one; a lone segment (as for empty text) carries both bits (0x60000).
C1_LinesegShape ==
    pc = "done" =>
        /\ Len(lineseg) >= 1
        /\ lineseg[1].textpos = 0
        /\ \A j \in 1..(Len(lineseg) - 1) : lineseg[j].textpos < lineseg[j + 1].textpos
        /\ \A j \in 1..Len(lineseg) :
              /\ HasBit(lineseg[j].flags, FLAGS_FIRST) <=> (j = 1)
              /\ HasBit(lineseg[j].flags, FLAGS_LAST) <=> (j = Len(lineseg))
        /\ (Len(lineseg) = 1 => lineseg[1].flags = FLAGS_FIRST_LAST)
        /\ (text = <<>> => Len(lineseg) = 1)

\* A text that wraps twice: three segments, the middle one with neither bit.
C1_Witness ==
    /\ pc = "done"
    /\ Len(lineseg) >= 3
    /\ lineseg[2].flags = FLAGS_NONE

\* The offsets i of the characters whose addition makes the running width
\* exceed the page width while more characters remain, the running width
\* restarting from zero after each (k is i + 1).
RECURSIVE OverflowOffsets(_, _, _, _, _)
OverflowOffsets(txt, k, current_width, h, hsize) ==
    IF k > Len(txt) THEN <<>>
    ELSE IF current_width + CharWidth(txt[k], h) > hsize /\ k < Len(txt)
    THEN <<k - 1>> \o OverflowOffsets(txt, k + 1, 0, h, hsize)
    ELSE OverflowOffsets(txt, k + 1, current_width + CharWidth(txt[k], h), h, hsize)

\* C13: when adding the character at offset i makes the accumulated width
\* exceed the page width and more characters remain, the line is closed and
\* the segment of the new line starts at that offset i, the running width
\* restarting from zero: the segments after the first start at the offsets
\* of the overflowing characters, one segment for each.
C13_NewLineAtOverflowOffset ==
    pc = "done" /\ text # <<>> =>
        /\ Len(lineseg) = 1 + Len(OverflowOffsets(text, 1, 0, char_height, horzsize))
        /\ \A j \in 2..Len(lineseg) :
               lineseg[j].textpos =
                   OverflowOffsets(text, 1, 0, char_height, horzsize)[j - 1]

(***************************************************************************)
(* The Pandoc AST.  A node is a record with its kind t and, for the kinds  *)
(* that have one, its content c, shaped as in Pandoc's JSON: the code's    *)
(* c[0], c[1], ... are c[1], c[2], ... here.  Attributes, targets and      *)
(* other parts the code never reads are the empty string.                  *)
(***************************************************************************)
Str(s)          == [t |-> "Str", c |-> s]
Space           == [t |-> "Space"]
SoftBreak       == [t |-> "SoftBreak"]
LineBreak       == [t |-> "LineBreak"]
Strong(inl)     == [t |-> "Strong", c |-> inl]
Emph(inl)       == [t |-> "Emph", c |-> inl]
Code(s)         == [t |-> "Code", c |-> <<"", s>>]
Link(inl)       == [t |-> "Link", c |-> <<"", inl, "">>]
Quoted(qt, inl) == [t |-> "Quoted", c |-> <<[t |-> qt], inl>>]
Math(mt, s)     == [t |-> "Math", c |-> <<[t |-> mt], s>>]
Span(inl)       == [t |-> "Span", c |-> <<"", inl>>]
\* Inline kinds of Pandoc that extract_text has no branch for.
Note(blks)      == [t |-> "Note", c |-> blks]
RawInline(s)    == [t |-> "RawInline", c |-> <<"html", s>>]

Para(inl)            == [t |-> "Para", c |-> inl]
Plain(inl)           == [t |-> "Plain", c |-> inl]
Header(level, inl)   == [t |-> "Header", c |-> <<level, "", inl>>]
CodeBlock(s)         == [t |-> "CodeBlock", c |-> <<"", s>>]
BulletList(items)    == [t |-> "BulletList", c |-> items]
OrderedList(n, items) == [t |-> "OrderedList", c |-> << <<n, "", "">>, items >>]
BlockQuote(blks)     == [t |-> "BlockQuote", c |-> blks]
HorizontalRule       == [t |-> "HorizontalRule"]
Div(blks)            == [t |-> "Div", c |-> <<"", blks>>]
DefinitionList(defs) == [t |-> "DefinitionList", c |-> defs]
LineBlock(lines)     == [t |-> "LineBlock", c |-> lines]
\* Table: c = [attr, caption, colspecs, head, bodies, foot]; the caption is
\* [short, blocks], the head [attr, rows], a body [attr, rowHeadColumns,
\* head rows, body rows], a row [attr, cells] and a cell [attr, alignment,
\* rowspan, colspan, blocks].
Cell(blks)           == <<"", "", 1, 1, blks>>
Row(cells)           == <<"", cells>>
TableBody(rows)      == <<"", 0, <<>>, rows>>
Table(cap, head_rows, bodies) ==
    [t |-> "Table", c |-> <<"", <<"", cap>>, <<>>, <<"", head_rows>>, bodies, <<"", <<>> >> >>]
\* Block kinds of Pandoc that convert_blocks has no branch for.
RawBlock(s)          == [t |-> "RawBlock", c |-> <<"html", s>>]
Figure(blks)         == [t |-> "Figure", c |-> <<"", <<"", <<>> >>, blks>>]

(***************************************************************************)
(* extract_text                                                            *)
(***************************************************************************)
EmphasisKinds == {"Strong", "Emph", "Strikeout", "Superscript", "Subscript",
                  "SmallCaps", "Underline"}

RECURSIVE extract_text(_)

\* One turn of the loop of extract_text as it would be if an inline of an
\* unknown kind appended "?".
InlineText_UnknownAsMark(inline) ==
    LET t == inline.t
    IN  CASE t = "Str"       -> inline.c
          [] t = "Space"     -> <<32>>
          [] t = "SoftBreak" -> <<32>>
          [] t = "LineBreak" -> <<10>>
          [] t \in EmphasisKinds -> extract_text(inline.c)
          [] t = "Code"      -> inline.c[2]
          [] t = "Link"      -> extract_text(inline.c[2])
          [] t = "Image"     -> extract_text(inline.c[2])
          [] t = "Quoted"    ->
                LET quote_type == inline.c[1].t
                    q  == IF quote_type = "DoubleQuote" THEN <<8220>> ELSE <<8216>>
                    q2 == IF quote_type = "DoubleQuote" THEN <<8221>> ELSE <<8217>>
                IN  q \o extract_text(inline.c[2]) \o q2
          [] t = "Cite"      -> extract_text(inline.c[2])
          [] t = "Math"      -> inline.c[2]
          [] t = "Span"      -> extract_text(inline.c[2])
          [] OTHER           -> <<63>>

\* One turn of the loop of extract_text: what the inline appends to parts.
InlineText(inline) ==
    LET t == inline.t
    IN  CASE t = "Str"       -> inline.c
          [] t = "Space"     -> <<32>>
          [] t = "SoftBreak" -> <<32>>
          [] t = "LineBreak" -> <<10>>
          [] t \in EmphasisKinds -> extract_text(inline.c)
          [] t = "Code"      -> inline.c[2]
          [] t = "Link"      -> extract_text(inline.c[2])
          [] t = "Image"     -> extract_text(inline.c[2])
          [] t = "Quoted"    ->
                LET quote_type == inline.c[1].t
                    q  == IF quote_type = "DoubleQuote" THEN <<8220>> ELSE <<8216>>
                    q2 == IF quote_type = "DoubleQuote" THEN <<8221>> ELSE <<8217>>
                IN  q \o extract_text(inline.c[2]) \o q2
          [] t = "Cite"      -> extract_text(inline.c[2])
          [] t = "Math"      -> inline.c[2]
          [] t = "Span"      -> extract_text(inline.c[2])
          [] OTHER           -> <<>>

extract_text(inlines) ==
    IF Len(inlines) = 0 THEN <<>>
    ELSE InlineText(Head(inlines)) \o extract_text(Tail(inlines))

(***************************************************************************)
(* The paragraph id generator and the XML builders.  An id is modelled by  *)
(* its distance from the seed 3121190098 of _para_id_counter, so the seed  *)
(* itself is 0 and the first id handed out is 1.                           *)
(***************************************************************************)
PARA_ID_SEED == 0

\* next_para_id as it would be without the increment.
next_para_id_NoIncrement(counter) == counter

\* The new value of _para_id_counter, which is also the id returned.
next_para_id(counter) == counter + 1

\* xml.sax.saxutils.escape: & < > become &amp; &lt; &gt;.
RECURSIVE xml_escape(_)
xml_escape(s) ==
    IF Len(s) = 0 THEN <<>>
    ELSE (CASE Head(s) = 38 -> <<38, 97, 109, 112, 59>>
            [] Head(s) = 60 -> <<38, 108, 116, 59>>
            [] Head(s) = 62 -> <<38, 103, 116, 59>>
            [] OTHER        -> <<Head(s)>>) \o xml_escape(Tail(s))

HEADING_STYLE(level) ==
    CASE level = 1 -> <<2, 2, 7>>
      [] level = 2 -> <<3, 3, 8>>
      [] level = 3 -> <<4, 4, 9>>
      [] level = 4 -> <<5, 5, 0>>
      [] level = 5 -> <<6, 6, 0>>
      [] level = 6 -> <<7, 7, 0>>
      [] OTHER     -> <<0, 0, 0>>

NORMAL_STYLE    == <<0, 0, 0>>
CAPTION_STYLE   == <<22, 19, 0>>
CODE_CHAR_PR_ID == 10
TABLE_BORDER_FILL_ID == 3

CHAR_HEIGHT_MAP(char_pr_id) ==
    CASE char_pr_id = 0  -> 1000
      [] char_pr_id = 7  -> 2200
      [] char_pr_id = 8  -> 1600
      [] char_pr_id = 9  -> 1300
      [] char_pr_id = 10 -> 1000
      [] OTHER           -> CHAR_HEIGHT_NORMAL

\* The builders take the counter and return the element with the counter
\* after the ids they drew: [xml |-> element, ctr |-> counter].
make_paragraph_xml(txt, style_id, para_pr_id, char_pr_id, counter) ==
    LET pid == next_para_id(counter)
    IN  [xml |-> [kind        |-> "p",
                  id          |-> pid,
                  paraPrIDRef |-> para_pr_id,
                  styleIDRef  |-> style_id,
                  charPrIDRef |-> char_pr_id,
                  t           |-> xml_escape(txt),
                  lineseg     |-> compute_lineseg_xml(txt, CHAR_HEIGHT_MAP(char_pr_id),
                                                      LINE_SPACING_PCT, PAGE_TEXT_WIDTH)],
         ctr |-> pid]

\* The script of the equation is latex_to_hwp_script(latex_str), escaped; the
\* element keeps the source it is computed from.
make_equation_paragraph_xml(latex_str, counter) ==
    LET pid == next_para_id(counter)
    IN  [xml |-> [kind |-> "eq", id |-> pid, paraPrIDRef |-> 0, styleIDRef |-> 0,
                  charPrIDRef |-> 0, latex |-> latex_str],
         ctr |-> pid]

\* make_table_xml: the cells of one row, from column col_idx on.
RECURSIVE TableCells(_, _, _, _, _)
TableCells(row, col_idx, row_idx, col_width, counter) ==
    IF col_idx >= Len(row) THEN [cells |-> <<>>, ctr |-> counter]
    ELSE LET cell_text == row[col_idx + 1]
             cell_pid  == next_para_id(counter)
             cell == [id      |-> cell_pid,
                      header  |-> IF row_idx = 0 THEN 1 ELSE 0,
                      t       |-> xml_escape(cell_text),
                      lineseg |-> compute_lineseg_xml(cell_text, CHAR_HEIGHT_NORMAL,
                                                      LINE_SPACING_PCT, col_width),
                      colAddr |-> col_idx,
                      rowAddr |-> row_idx,
                      width   |-> col_width]
             rest == TableCells(row, col_idx + 1, row_idx, col_width, cell_pid)
         IN  [cells |-> <<cell>> \o rest.cells, ctr |-> rest.ctr]

\* make_table_xml: the rows, from row row_idx on.
RECURSIVE TableRows(_, _, _, _)
TableRows(rows, row_idx, col_width, counter) ==
    IF row_idx >= Len(rows) THEN [rows |-> <<>>, ctr |-> counter]
    ELSE LET r    == TableCells(rows[row_idx + 1], 0, row_idx, col_width, counter)
             rest == TableRows(rows, row_idx + 1, col_width, r.ctr)
         IN  [rows |-> <<r.cells>> \o rest.rows, ctr |-> rest.ctr]

Max(a, b) == IF a >= b THEN a ELSE b

\* The elements built so far with the counter after them: xml_parts and
\* _para_id_counter.
Acc(parts, counter) == [parts |-> parts, ctr |-> counter]
\* xml_parts.append(r), r the result of a builder
Emit(acc, r)   == [parts |-> Append(acc.parts, r.xml), ctr |-> r.ctr]
\* xml_parts.extend(r), r the result of a conversion
Extend(acc, r) == [parts |-> acc.parts \o r.parts, ctr |-> r.ctr]

\* make_table_xml, from "pid = next_para_id()" on.  The element is the
\* caption paragraph, when there is one, followed by the paragraph that
\* holds the table; t is the empty text run that closes that paragraph.
TableElement(rows, ncols, caption, pid, tbl_id, body) ==
    [xml |-> [kind    |-> "tbl",
              caption |-> caption,
              id      |-> pid,
              tbl_id  |-> tbl_id,
              rowCnt  |-> Len(rows),
              colCnt  |-> ncols,
              borderFillIDRef |-> TABLE_BORDER_FILL_ID,
              rows    |-> body.rows,
              t       |-> <<>>],
     ctr |-> body.ctr]

TableWithIds(rows, ncols, caption, pid, tbl_id) ==
    TableElement(rows, ncols, caption, pid, tbl_id,
                 TableRows(rows, 0, PAGE_TEXT_WIDTH \div Max(ncols, 1), tbl_id))

TableAfterCaption(rows, ncols, cap) ==
    TableWithIds(rows, ncols, cap.parts, next_para_id(cap.ctr),
                 next_para_id(next_para_id(cap.ctr)))

make_table_xml(rows, ncols, caption_text, counter) ==
    TableAfterCaption(rows, ncols,
        IF Len(caption_text) > 0
        THEN Emit(Acc(<<>>, counter),
                  make_paragraph_xml(caption_text, CAPTION_STYLE[1], CAPTION_STYLE[2],
                                     CAPTION_STYLE[3], counter))
        ELSE Acc(<<>>, counter))

(***************************************************************************)
(* The Table branch of convert_blocks: the grid and the caption text.      *)
(***************************************************************************)
\* The text of a cell or of a caption: the Para and Plain blocks, joined.
RECURSIVE CellText(_)
CellText(cell_blocks) ==
    IF Len(cell_blocks) = 0 THEN <<>>
    ELSE (IF Head(cell_blocks).t \in {"Para", "Plain"}
          THEN extract_text(Head(cell_blocks).c) ELSE <<>>)
         \o CellText(Tail(cell_blocks))

CellsOf(row) == IF Len(row) > 1 THEN row[2] ELSE <<>>

CellBlocks(cell) == IF Len(cell) > 4 THEN cell[5] ELSE <<>>

RowTexts(row) == [j \in 1..Len(CellsOf(row)) |-> CellText(CellBlocks(CellsOf(row)[j]))]

\* "if row_texts: ... all_rows.append(row_texts)"
KeepRow(row_texts) == IF Len(row_texts) > 0 THEN <<row_texts>> ELSE <<>>

\* The rows appended to all_rows by one "for row in ..." loop: a row with no
\* cell is left out.
RECURSIVE CollectRows(_)
CollectRows(rows) ==
    IF Len(rows) = 0 THEN <<>>
    ELSE KeepRow(RowTexts(Head(rows))) \o CollectRows(Tail(rows))

BodyRows(tbody) == IF Len(tbody) > 3 THEN tbody[4] ELSE <<>>

RECURSIVE CollectBodies(_)
CollectBodies(table_bodies) ==
    IF Len(table_bodies) = 0 THEN <<>>
    ELSE CollectRows(BodyRows(Head(table_bodies))) \o CollectBodies(Tail(table_bodies))

HeadRows(table_head) == IF Len(table_head) > 1 THEN table_head[2] ELSE <<>>

RECURSIVE MaxLen(_)
MaxLen(rows) == IF Len(rows) = 0 THEN 0 ELSE Max(Len(Head(rows)), MaxLen(Tail(rows)))

\* The rows as they would be without the padding loop.
PadRow_NoPadding(row, ncols) == row

\* The "while len(row) < col_count: row.append('')" loop.
PadRow(row, ncols) ==
    [j \in 1..Max(Len(row), ncols) |-> IF j <= Len(row) THEN row[j] ELSE <<>>]

PadRows(collected, ncols) ==
    [all_rows  |-> [j \in 1..Len(collected) |-> PadRow(collected[j], ncols)],
     col_count |-> ncols]

\* all_rows and col_count as the Table branch leaves them before it builds
\* the table: col_count is the largest len(row_texts) seen.
GridOf(collected) == PadRows(collected, MaxLen(collected))

TableGrid(c) == GridOf(CollectRows(HeadRows(c[4])) \o CollectBodies(c[5]))

CaptionText(c) ==
    IF Len(c[2]) > 1 /\ Len(c[2][2]) > 0 THEN CellText(c[2][2]) ELSE <<>>

(***************************************************************************)
(* convert_blocks                                                          *)
(***************************************************************************)
\* str(n) of a Python int.
RECURSIVE Digits(_)
Digits(n) == IF n < 10 THEN <<48 + n>> ELSE Digits(n \div 10) \o <<48 + (n % 10)>>
IntToStr(n) == IF n < 0 THEN <<45>> \o Digits(0 - n) ELSE Digits(n)

\* s.split(sep) for a one-character separator.
RECURSIVE SplitFrom(_, _, _, _)
SplitFrom(s, k, sep, cur) ==
    IF k > Len(s) THEN <<cur>>
    ELSE IF s[k] = sep THEN <<cur>> \o SplitFrom(s, k + 1, sep, <<>>)
    ELSE SplitFrom(s, k + 1, sep, Append(cur, s[k]))
Split(s, sep) == SplitFrom(s, 1, sep, <<>>)

\* The prefix as it would be with the space of ASCII.
IndentPrefix_Ascii(level) == [j \in 1..level |-> 32]

\* "　" * indent_level
IndentPrefix(level) == [j \in 1..level |-> 12288]

\* Each text with the prefix in front.
Prefixed(prefix, texts) == [j \in 1..Len(texts) |-> prefix \o texts[j]]

BULLET_MARKER == <<8226, 32>>                       \* "• "
NumberMarker(num) == IntToStr(num) \o <<46, 32>>    \* f"{num}. "
RULE_TEXT == [j \in 1..30 |-> 9473]                 \* "━" * 30

\* The first row of a table element that has a cell, 0 if none has.
FirstRowWithCell(rows) ==
    IF \E r \in 1..Len(rows) : Len(rows[r]) > 0
    THEN CHOOSE r \in 1..Len(rows) :
            /\ Len(rows[r]) > 0
            /\ \A q \in 1..(r - 1) : Len(rows[q]) = 0
    ELSE 0

\* The replace in a table element without a caption.
ReplaceInRows(elem, marker, r) ==
    IF r > 0 THEN [elem EXCEPT !.rows[r][1].t = marker \o @]
    ELSE [elem EXCEPT !.t = marker \o @]

\* elem.replace('<hp:t>', '<hp:t>' + marker, 1): the marker goes in front of
\* the text of the first <hp:t> of the element's XML.  A paragraph has one;
\* an equation paragraph has none; in a table element the first is the
\* caption's, else the first cell's, else the one closing the paragraph.
ReplaceFirstT(elem, marker) ==
    CASE elem.kind = "p"   -> [elem EXCEPT !.t = marker \o @]
      [] elem.kind = "eq"  -> elem
      [] elem.kind = "tbl" ->
            IF Len(elem.caption) > 0
            THEN [elem EXCEPT !.caption[1].t = marker \o @]
            ELSE ReplaceInRows(elem, marker, FirstRowWithCell(elem.rows))

\* "if item_parts: item_parts[0] = item_parts[0].replace(...)"
MarkFirst(item, marker) ==
    IF Len(item.parts) > 0
    THEN [item EXCEPT !.parts[1] = ReplaceFirstT(@, marker)]
    ELSE item

\* One paragraph appended per text, from the k-th text on, all in one style.
RECURSIVE ParagraphsOf(_, _, _, _, _, _)
ParagraphsOf(texts, k, style_id, para_pr_id, char_pr_id, acc) ==
    IF k > Len(texts) THEN acc
    ELSE ParagraphsOf(texts, k + 1, style_id, para_pr_id, char_pr_id,
                      Emit(acc, make_paragraph_xml(texts[k], style_id, para_pr_id,
                                                   char_pr_id, acc.ctr)))

RECURSIVE convert_blocks(_, _, _)

\* The BulletList and OrderedList branches: the items from 0-based position
\* idx on.  An item's first element gets the marker; an item that produced
\* nothing adds nothing.
RECURSIVE ListItems(_, _, _, _, _, _)
ListItems(items, idx, level, ordered, start_num, acc) ==
    IF idx >= Len(items) THEN acc
    ELSE ListItems(items, idx + 1, level, ordered, start_num,
             Extend(acc, MarkFirst(convert_blocks(items[idx + 1], level, acc.ctr),
                                   IF ordered THEN NumberMarker(start_num + idx)
                                   ELSE BULLET_MARKER)))

\* The DefinitionList branch: the definitions of one term, from the k-th on.
RECURSIVE Definitions(_, _, _, _)
Definitions(defs, k, level, acc) ==
    IF k > Len(defs) THEN acc
    ELSE Definitions(defs, k + 1, level,
                     Extend(acc, convert_blocks(defs[k], level + 1, acc.ctr)))

\* The DefinitionList branch: the (term, definitions) pairs, from the k-th on.
RECURSIVE DefinitionItems(_, _, _, _)
DefinitionItems(items, k, level, acc) ==
    IF k > Len(items) THEN acc
    ELSE DefinitionItems(items, k + 1, level,
             Definitions(items[k][2], 1, level,
                 Emit(acc, make_paragraph_xml(
                               IndentPrefix(level) \o extract_text(items[k][1]),
                               0, 0, 0, acc.ctr))))

\* The Table branch once the grid and the caption text are known.
TableBlock(grid, cap_text, acc) ==
    IF Len(grid.all_rows) > 0 /\ grid.col_count > 0
    THEN Emit(acc, make_table_xml(grid.all_rows, grid.col_count, cap_text, acc.ctr))
    ELSE acc

\* The Header branch once the style triple is known.
HeaderBlock(c, style, acc) ==
    Emit(acc, make_paragraph_xml(extract_text(c[3]), style[1], style[2], style[3],
                                 acc.ctr))

\* One turn of the loop of convert_blocks: xml_parts and the counter after
\* the block.
ConvertBlock(block, level, acc) ==
    CASE block.t \in {"Para", "Plain"} ->
            IF Len(block.c) = 1 /\ block.c[1].t = "Math"
            THEN Emit(acc, make_equation_paragraph_xml(block.c[1].c[2], acc.ctr))
            ELSE Emit(acc, make_paragraph_xml(IndentPrefix(level) \o extract_text(block.c),
                                              0, 0, 0, acc.ctr))
      [] block.t = "Header" ->
            HeaderBlock(block.c, HEADING_STYLE(block.c[1]), acc)
      [] block.t = "CodeBlock" ->
            ParagraphsOf(Prefixed(IndentPrefix(level), Split(block.c[2], 10)), 1,
                         0, 0, CODE_CHAR_PR_ID, acc)
      [] block.t = "BulletList" ->
            ListItems(block.c, 0, level, FALSE, 0, acc)
      [] block.t = "OrderedList" ->
            ListItems(block.c[2], 0, level, TRUE, block.c[1][1], acc)
      [] block.t = "BlockQuote" ->
            Extend(acc, convert_blocks(block.c, level + 1, acc.ctr))
      [] block.t = "Table" ->
            TableBlock(TableGrid(block.c), CaptionText(block.c), acc)
      [] block.t = "HorizontalRule" ->
            Emit(acc, make_paragraph_xml(RULE_TEXT, 0, 0, 0, acc.ctr))
      [] block.t = "Div" ->
            Extend(acc, convert_blocks(block.c[2], level, acc.ctr))
      [] block.t = "DefinitionList" ->
            DefinitionItems(block.c, 1, level, acc)
      [] block.t = "LineBlock" ->
            ParagraphsOf(Prefixed(IndentPrefix(level),
                                  [j \in 1..Len(block.c) |-> extract_text(block.c[j])]),
                         1, 0, 0, 0, acc)
      [] OTHER -> acc

\* The "for block in blocks" loop, from the k-th block on.
RECURSIVE ConvertLoop(_, _, _, _)
ConvertLoop(blks, k, level, acc) ==
    IF k > Len(blks) THEN acc
    ELSE ConvertLoop(blks, k + 1, level, ConvertBlock(blks[k], level, acc))

\* [parts |-> the list returned, ctr |-> _para_id_counter after the call]
convert_blocks(blks, level, counter) == ConvertLoop(blks, 1, level, Acc(<<>>, counter))

(***************************************************************************)
(* build_title_block_xml and build_section_xml.  Of the section only the   *)
(* elements built here are modelled: the title block followed by the       *)
(* converted blocks; what comes before and after them is the skeleton's.   *)
(***************************************************************************)
\* "if cond: title_parts.append(make_paragraph_xml(txt, ...))"
AppendIf(cond, acc, txt, style_id, para_pr_id, char_pr_id) ==
    IF cond
    THEN Emit(acc, make_paragraph_xml(txt, style_id, para_pr_id, char_pr_id, acc.ctr))
    ELSE acc

\* " | ".join(part for part in [author, date_str] if part)
MetaLine(author, date_str) ==
    IF Len(author) > 0 /\ Len(date_str) > 0
    THEN author \o <<32, 124, 32>> \o date_str
    ELSE author \o date_str

\* "if title_parts: title_parts.append(make_paragraph_xml(''))"
BlankSeparator(acc) == AppendIf(Len(acc.parts) > 0, acc, <<>>, 0, 0, 0)

build_title_block_xml(title, subtitle, author, date_str, counter) ==
    BlankSeparator(
        AppendIf(Len(author) > 0 \/ Len(date_str) > 0,
            AppendIf(Len(subtitle) > 0,
                AppendIf(Len(title) > 0, Acc(<<>>, counter), title, 0, 0, 7),
                subtitle, 0, 0, 8),
            MetaLine(author, date_str), 0, 0, 0))

\* "if not title_block and not content_parts: content_parts = [...]", and
\* the join of the two lists.
JoinSection(title_block, content_parts) ==
    IF Len(title_block.parts) = 0 /\ Len(content_parts.parts) = 0
    THEN Emit(content_parts, make_paragraph_xml(<<>>, 0, 0, 0, content_parts.ctr))
    ELSE Extend(title_block, content_parts)

ContentAfter(title_block, blks) ==
    JoinSection(title_block, convert_blocks(blks, 0, title_block.ctr))

build_section_xml(blks, m, counter) ==
    ContentAfter(build_title_block_xml(m.title, m.subtitle, m.author, m.date, counter),
                 blks)

(***************************************************************************)
(* Specification of the conversion: build_section_xml is run on a document *)
(* and a title block drawn from the samples below, any number of times in  *)
(* one process, the counter going on from where the last run left it.      *)
(***************************************************************************)
TxtA == <<65>>              \* "A"
TxtB == <<66>>              \* "B"
TxtX == <<92, 120>>         \* "\x", a math source
TxtLt == <<97, 60, 98>>     \* "a<b"
TxtCode == <<97, 10, 98>>   \* "a\nb"

CellOf(txt) == Cell(<<Plain(<<Str(txt)>>)>>)

BaseBlocks ==
    << Para(<<Str(TxtA)>>),
       Para(<<Str(TxtA), Space, Emph(<<Str(TxtB)>>)>>),
       Para(<<Math("DisplayMath", TxtX)>>),
       Para(<<Math("InlineMath", TxtX), Note(<<Para(<<Str(TxtB)>>)>>)>>),
       Plain(<<Str(TxtLt), RawInline(TxtB), Quoted("DoubleQuote", <<Str(TxtB)>>)>>),
       Header(1, <<Str(TxtA)>>),
       Header(4, <<Link(<<Str(TxtA)>>), LineBreak, Code(TxtB)>>),
       CodeBlock(TxtCode),
       HorizontalRule,
       RawBlock(TxtA),
       Table(<<>>, <<Row(<<CellOf(TxtA), CellOf(TxtB)>>)>>,
             <<TableBody(<<Row(<<CellOf(TxtB)>>)>>)>>),
       Table(<<Plain(<<Str(TxtA)>>)>>, <<>>,
             <<TableBody(<<Row(<<>>), Row(<<Cell(<<RawBlock(TxtA), Para(<<Str(TxtB)>>)>>)>>)>>)>>),
       Table(<<Plain(<<Str(TxtA)>>)>>, <<Row(<<>>)>>, <<>>),
       LineBlock(<< <<Str(TxtA)>>, <<Str(TxtB), Span(<<Str(TxtA)>>)>> >>),
       Figure(<<Para(<<Str(TxtA)>>)>>),
       Para(<<>>) >>

NumBase  == Len(BaseBlocks)
Wrappers == 0..7

\* The block b inside one of the containers, or bare.
Wrap(w, b) ==
    CASE w = 0 -> b
      [] w = 1 -> BlockQuote(<<b>>)
      [] w = 2 -> Div(<<b>>)
      [] w = 3 -> BulletList(<< <<b>>, <<>>, <<b, b>> >>)
      [] w = 4 -> OrderedList(3, << <<b>>, <<b>> >>)
      [] w = 5 -> DefinitionList(<< <<(<<Str(TxtA)>>), << <<b>>, <<b>> >> >> >>)
      [] w = 6 -> BlockQuote(<<Div(<<BulletList(<< <<BlockQuote(<<b>>)>> >>), b>>), b>>)
      [] w = 7 -> BulletList(<< <<RawBlock(TxtA), OrderedList(9, << <<b>>, <<b>> >>)>> >>)

\* A document: a sample block in a container, followed or not by a second
\* top-level block.
Doc(w, i, j) ==
    <<Wrap(w, BaseBlocks[i])>> \o (IF j = 0 THEN <<>> ELSE <<BaseBlocks[j]>>)

Metas ==
    << [title |-> <<>>, subtitle |-> <<>>, author |-> <<>>, date |-> <<>>],
       [title |-> TxtA, subtitle |-> <<>>, author |-> <<>>, date |-> TxtB],
       [title |-> TxtA, subtitle |-> TxtB, author |-> TxtA, date |-> TxtB] >>

InitConvert ==
    /\ IdleLineseg /\ IdleTable /\ IdleHeader /\ IdlePackage
    /\ IdleMath /\ IdleHpf
    /\ blocks = <<>>
    /\ meta = Metas[1]
    /\ indent_level = 0
    /\ id_before = PARA_ID_SEED
    /\ para_id_counter = PARA_ID_SEED
    /\ content = <<>>
    /\ nesting = <<>>
    /\ pc = "start"

BuildSectionXml ==
    /\ para_id_counter <= MaxCounter
    /\ \E w \in Wrappers, i \in 1..NumBase, j \in {0, 3}, m \in 1..Len(Metas) :
          /\ blocks' = Doc(w, i, j)
          /\ meta' = Metas[m]
          /\ id_before' = para_id_counter
          /\ \E r \in {build_section_xml(blocks', meta', para_id_counter)} :
                /\ para_id_counter' = r.ctr
                /\ content' = r.parts
    /\ pc' = "done"
    /\ UNCHANGED <<indent_level, nesting, varsLineseg, varsTable, varsHeader, varsPackage,
                   varsMath, varsHpf>>

NextConvert == BuildSectionXml

SpecConvert == InitConvert /\ [][NextConvert]_vars

(***************************************************************************)
(* Properties of the conversion.                                           *)
(***************************************************************************)
RECURSIVE Concat(_)
Concat(ss) == IF Len(ss) = 0 THEN <<>> ELSE Head(ss) \o Concat(Tail(ss))

\* The ids an element carries, in the order they stand in its XML.
IdsOf(elem) ==
    CASE elem.kind = "tbl" ->
            [j \in 1..Len(elem.caption) |-> elem.caption[j].id]
            \o <<elem.id, elem.tbl_id>>
            \o Concat([r \in 1..Len(elem.rows) |->
                          [k \in 1..Len(elem.rows[r]) |-> elem.rows[r][k].id]])
      [] OTHER -> <<elem.id>>

IdsIn(parts) == Concat([j \in 1..Len(parts) |-> IdsOf(parts[j])])

\* C2: over any sequence of conversions in one run, every id handed out is
\* distinct and greater than the seed, the ids stand in the output in
\* strictly increasing order of document position (they are the counter's
\* values in the order it produced them), and the counter never decreases
\* and is never reset.
C2_IdsInTraversalOrder ==
    /\ [](pc = "done" =>
            LET ids == IdsIn(content)
            IN  /\ PARA_ID_SEED <= id_before
                /\ Len(ids) = para_id_counter - id_before
                /\ \A j \in 1..Len(ids) : ids[j] = id_before + j)
    /\ [][/\ para_id_counter' >= para_id_counter
          /\ id_before' = para_id_counter]_vars

\* A second conversion in the same run whose output holds a table with a
\* caption inside a list.
C2_Witness ==
    /\ pc = "done"
    /\ id_before > PARA_ID_SEED
    /\ \E j \in 1..Len(content) :
          /\ content[j].kind = "tbl"
          /\ Len(content[j].caption) = 1
          /\ Len(content[j].caption[1].t) > 1

(***************************************************************************)
(* Specification of the table grid: a table is drawn in Init, with no or   *)
(* one header row and up to two bodies, every row with 0..MaxCols cells,   *)
(* and NormalizeTable runs the Table branch up to the call of              *)
(* make_table_xml.  The cell in column k of row r of section g (0 the      *)
(* head, 1 and 2 the bodies) holds a text of its own, CellName(g, r, k).   *)
(***************************************************************************)
CellName(g, r, k) == <<65 + g, 48 + r, 96 + k>>

RowOfLen(g, r, n) == Row([k \in 1..n |-> CellOf(CellName(g, r, k))])

RowsOfLens(g, lens) == [r \in 1..Len(lens) |-> RowOfLen(g, r, lens[r])]

TableOfLens(head, bodies) ==
    Table(<<>>, RowsOfLens(0, head),
          [g \in 1..Len(bodies) |-> TableBody(RowsOfLens(g, bodies[g]))])

InitTable ==
    /\ IdleLineseg /\ IdleConvert /\ IdleHeader /\ IdlePackage
    /\ IdleMath /\ IdleHpf
    /\ \E head \in SeqsUpTo(0..MaxCols, 1),
          bodies \in SeqsUpTo(SeqsUpTo(0..MaxCols, MaxRows), 2) :
          table = TableOfLens(head, bodies).c
    /\ all_rows = <<>>
    /\ col_count = 0
    /\ pc = "start"

NormalizeTable ==
    /\ pc = "start"
    /\ \E grid \in {TableGrid(table)} :
          /\ all_rows' = grid.all_rows
          /\ col_count' = grid.col_count
    /\ pc' = "done"
    /\ UNCHANGED <<table, varsLineseg, varsConvert, varsHeader, varsPackage, varsMath,
                   varsHpf>>

NextTable == NormalizeTable

SpecTable == InitTable /\ [][NextTable]_vars

(***************************************************************************)
(* Properties of the table grid.                                           *)
(***************************************************************************)
\* The rows of the table as they stand in the input, header rows first,
\* then the rows of each body: the text of every cell, in order.
InputRow(row) == [k \in 1..Len(row[2]) |-> row[2][k][5][1].c[1].c]
InputRowsOf(rows) == [r \in 1..Len(rows) |-> InputRow(rows[r])]
InputRows ==
    InputRowsOf(table[4][2])
    \o Concat([g \in 1..Len(table[5]) |-> InputRowsOf(table[5][g][4])])

\* A row with empty strings added on the right up to n entries.
PaddedTo(row, n) == row \o [k \in 1..(n - Len(row)) |-> <<>>]

NonEmptyRows(rows) == SelectSeq(rows, LAMBDA row : Len(row) > 0)

\* C3 as claimed: the grid is rectangular with col_count the largest input
\* row length (0 without rows), and, when the table has a cell at all, it is
\* the input rows, each short row padded on the right with empty strings,
\* the cells that were present kept with their text and order.
C3_GridIsPaddedInput ==
    pc = "done" =>
        /\ col_count = MaxLen(InputRows)
        /\ \A j \in 1..Len(all_rows) : Len(all_rows[j]) = col_count
        /\ col_count > 0 =>
              all_rows = [j \in 1..Len(InputRows) |-> PaddedTo(InputRows[j], col_count)]

\* C3 as amended: a row without cells is left out of the grid; the grid is
\* the other input rows, in order, each padded on the right with empty
\* strings to col_count entries, and col_count is the largest input row
\* length (0 without rows).
C3_GridIsPaddedNonEmptyInput ==
    pc = "done" =>
        /\ col_count = MaxLen(InputRows)
        /\ \A j \in 1..Len(all_rows) : Len(all_rows[j]) = col_count
        /\ all_rows = [j \in 1..Len(NonEmptyRows(InputRows)) |->
                          PaddedTo(NonEmptyRows(InputRows)[j], col_count)]

\* A header row of two cells and a body row of one, as in the header [A, B]
\* with body [1]: the body row is padded with one empty string.
C3_Witness ==
    /\ pc = "done"
    /\ col_count = 2
    /\ Len(all_rows) = 2
    /\ all_rows[1] = <<CellName(0, 1, 1), CellName(0, 1, 2)>>
    /\ all_rows[2] = <<CellName(1, 1, 1), <<>> >>

(***************************************************************************)
(* header.xml and update_header_xml.  The file is modelled by the sequence *)
(* of the markup the patterns of update_header_xml can match: a fontface   *)
(* block, the opening tag of a catalog with its itemCnt, an entry of a     *)
(* catalog, the closing tag of a catalog, the opening tag of a paraPr with *)
(* its id, an hc:prev with its value, the closing tag of a paraPr.         *)
(***************************************************************************)
FontFace(lang, fonts) ==
    [tag |-> "fontface", lang |-> lang, fontCnt |-> Len(fonts), fonts |-> fonts]
CharPropertiesOpen(n)  == [tag |-> "charProperties", itemCnt |-> n]
CharPropertiesClose    == [tag |-> "/charProperties"]
BorderFillListOpen(n)  == [tag |-> "borderFillList", itemCnt |-> n]
BorderFillListClose    == [tag |-> "/borderFillList"]
BorderFill(id, border) == [tag |-> "borderFill", id |-> id, border |-> border]
ParaPrOpen(id)         == [tag |-> "paraPr", id |-> id]
Prev(value)            == [tag |-> "prev", value |-> value]
ParaPrClose            == [tag |-> "/paraPr"]

HEADING_CHAR_PROPS ==
    << <<7, 2200, TRUE, 0>>, <<8, 1600, TRUE, 0>>, <<9, 1300, FALSE, 0>> >>
CODE_FONT_REF == 2
HEADING_SPACING == << <<2, 800>>, <<3, 600>>, <<4, 400>> >>

\* LANG_FONT_MAP.get(lang, 'NimbusSanL')
LANG_FONT_MAP(lang) ==
    CASE lang = "HANGUL"   -> "NanumSquareOTF"
      [] lang = "LATIN"    -> "NimbusSanL"
      [] lang = "HANJA"    -> "Noto Sans CJK KR"
      [] lang = "JAPANESE" -> "Noto Sans CJK KR"
      [] lang = "OTHER"    -> "NimbusSanL"
      [] lang = "SYMBOL"   -> "STIX Two Text"
      [] lang = "USER"     -> "NimbusSanL"
      [] OTHER             -> "NimbusSanL"

_make_charpr_xml(cpr_id, height, bold, font_ref) ==
    [tag |-> "charPr", id |-> cpr_id, height |-> height, bold |-> bold,
     fontRef |-> font_ref]

_make_table_borderfill_xml == BorderFill(TABLE_BORDER_FILL_ID, "SOLID")

_replace_fontface_block(match) ==
    FontFace(match.lang,
             <<LANG_FONT_MAP(match.lang), LANG_FONT_MAP(match.lang), "D2Coding">>)

\* Step 0: re.sub over the fontface blocks.
ReplaceFontfaces(header) ==
    [k \in 1..Len(header) |->
        IF header[k].tag = "fontface" THEN _replace_fontface_block(header[k])
        ELSE header[k]]

\* new_charpr: the heading entries followed by the code entry.
NewCharPr ==
    [j \in 1..Len(HEADING_CHAR_PROPS) |->
        _make_charpr_xml(HEADING_CHAR_PROPS[j][1], HEADING_CHAR_PROPS[j][2],
                        HEADING_CHAR_PROPS[j][3], HEADING_CHAR_PROPS[j][4])]
    \o <<_make_charpr_xml(CODE_CHAR_PR_ID, 1000, FALSE, CODE_FONT_REF)>>

\* header_xml.replace(marker, new + marker) with the new entries in the
\* opposite order.
RECURSIVE InsertBefore_Reversed(_, _, _)
InsertBefore_Reversed(header, marker, new) ==
    IF Len(header) = 0 THEN <<>>
    ELSE (IF Head(header).tag = marker
          THEN [j \in 1..Len(new) |-> new[Len(new) + 1 - j]] \o <<Head(header)>>
          ELSE <<Head(header)>>)
         \o InsertBefore_Reversed(Tail(header), marker, new)

\* header_xml.replace(marker, new + marker): every closing tag named marker
\* gets the new entries in front of it.
RECURSIVE InsertBefore(_, _, _)
InsertBefore(header, marker, new) ==
    IF Len(header) = 0 THEN <<>>
    ELSE (IF Head(header).tag = marker THEN new \o <<Head(header)>>
          ELSE <<Head(header)>>)
         \o InsertBefore(Tail(header), marker, new)

\* re.sub(r'(<hh:TAG\s+itemCnt=")OLD(")', r'\g<1>NEW\2', header_xml): the
\* count is rewritten where it is OLD, and only there.
SubItemCnt(header, tag, old, new) ==
    [k \in 1..Len(header) |->
        IF header[k].tag = tag /\ header[k].itemCnt = old
        THEN [header[k] EXCEPT !.itemCnt = new]
        ELSE header[k]]

\* re.sub of the heading spacing pattern, DOTALL, from the k-th piece on.
\* A match begins at the opening tag of a paraPr with the id, runs on (.*?
\* matches anything, a closing tag and later paraPr included) to the first
\* hc:prev whose value is 0, and that value becomes prev_val; the search
\* goes on after the match.  opened says a match has begun.
RECURSIVE SubPrev(_, _, _, _, _)
SubPrev(header, k, opened, para_pr_id, prev_val) ==
    IF k > Len(header) THEN header
    ELSE IF ~opened
    THEN SubPrev(header, k + 1,
                 header[k].tag = "paraPr" /\ header[k].id = para_pr_id,
                 para_pr_id, prev_val)
    ELSE IF header[k].tag = "prev" /\ header[k].value = 0
    THEN SubPrev([header EXCEPT ![k].value = prev_val], k + 1, FALSE,
                 para_pr_id, prev_val)
    ELSE SubPrev(header, k + 1, TRUE, para_pr_id, prev_val)

\* Step 3: "for para_pr_id, prev_val in HEADING_SPACING.items()", from the
\* k-th item on.
RECURSIVE SpacingLoop(_, _)
SpacingLoop(header, k) ==
    IF k > Len(HEADING_SPACING) THEN header
    ELSE SpacingLoop(SubPrev(header, 1, FALSE, HEADING_SPACING[k][1],
                             HEADING_SPACING[k][2]),
                     k + 1)

\* Step 1: the charPr entries and the count of their catalog.
AddCharPr(header) ==
    SubItemCnt(InsertBefore(header, "/charProperties", NewCharPr),
               "charProperties", 7, 11)

\* Step 2: the borderFill entry and the count of its catalog.
AddBorderFill(header) ==
    SubItemCnt(InsertBefore(header, "/borderFillList", <<_make_table_borderfill_xml>>),
               "borderFillList", 2, 3)

update_header_xml(header) ==
    SpacingLoop(AddBorderFill(AddCharPr(ReplaceFontfaces(header))), 1)

(***************************************************************************)
(* Specification of the header update: update_header_xml is run on a       *)
(* header.xml drawn in Init: three fontface blocks, a borderFill catalog of *)
(* 0..MaxBorderFills entries, a charPr catalog of 0..MaxCharPrs entries,   *)
(* each declaring the number of entries it holds, and the paraPr entries   *)
(* of some of the ids 1..MaxParaPrId, each with an hc:prev of value 0 or   *)
(* 100.                                                                    *)
(***************************************************************************)
MaxBorderFills == 2
MaxCharPrs     == 7
MaxParaPrId    == 5

SkeletonFontfaces ==
    << FontFace("HANGUL", <<"Gulim", "Batang">>),
       FontFace("SYMBOL", <<"Gulim">>),
       FontFace("EXTRA", <<"Gulim">>) >>

BorderCatalog(n) ==
    <<BorderFillListOpen(n)>> \o [j \in 1..n |-> BorderFill(j, "NONE")]
    \o <<BorderFillListClose>>

CharCatalog(n) ==
    <<CharPropertiesOpen(n)>> \o [j \in 1..n |-> _make_charpr_xml(j - 1, 1000, FALSE, 0)]
    \o <<CharPropertiesClose>>

\* prevs[k] is the hc:prev value of the paraPr with id k; the paraPr is not
\* in the catalog where it is NoParaPr.
NoParaPr == 0 - 1
PrevValues == {NoParaPr, 0, 100}

RECURSIVE ParaCatalog(_, _)
ParaCatalog(prevs, k) ==
    IF k > Len(prevs) THEN <<>>
    ELSE (IF prevs[k] = NoParaPr THEN <<>>
          ELSE <<ParaPrOpen(k), Prev(prevs[k]), ParaPrClose>>)
         \o ParaCatalog(prevs, k + 1)

HeaderOf(nbf, ncp, prevs) ==
    SkeletonFontfaces \o BorderCatalog(nbf) \o CharCatalog(ncp) \o ParaCatalog(prevs, 1)

InitHeader ==
    /\ IdleLineseg /\ IdleTable /\ IdleConvert /\ IdlePackage
    /\ IdleMath /\ IdleHpf
    /\ \E nbf \in 0..MaxBorderFills, ncp \in 0..MaxCharPrs,
          prevs \in [1..MaxParaPrId -> PrevValues] :
          header_xml = HeaderOf(nbf, ncp, prevs)
    /\ new_header_xml = <<>>
    /\ pc = "start"

UpdateHeaderXml ==
    /\ pc = "start"
    /\ new_header_xml' = update_header_xml(header_xml)
    /\ pc' = "done"
    /\ UNCHANGED <<header_xml, varsLineseg, varsTable, varsConvert, varsPackage,
                   varsMath, varsHpf>>

NextHeader == UpdateHeaderXml

SpecHeader == InitHeader /\ [][NextHeader]_vars

(***************************************************************************)
(* Properties of the header update.                                        *)
(***************************************************************************)
\* The position of the first piece with the tag.
IndexOf(header, tag) ==
    CHOOSE k \in 1..Len(header) :
        header[k].tag = tag /\ \A q \in 1..(k - 1) : header[q].tag # tag

\* The declared item count of a catalog.
ItemCnt(header, tag) == header[IndexOf(header, tag)].itemCnt

\* The entries of a catalog: what stands between its opening and its
\* closing tag.
Entries(header, open, close) ==
    SubSeq(header, IndexOf(header, open) + 1, IndexOf(header, close) - 1)

\* C4: once update_header_xml has run, the declared item count of the charPr
\* catalog is the count declared before plus 4 and that of the borderFill
\* catalog is the count declared before plus 1; so a declared count that
\* was the number of entries is still the number of entries.
C4_DeclaredCountsAdvance ==
    pc = "done" =>
        /\ ItemCnt(new_header_xml, "charProperties")
              = ItemCnt(header_xml, "charProperties") + 4
        /\ ItemCnt(new_header_xml, "borderFillList")
              = ItemCnt(header_xml, "borderFillList") + 1
        /\ ItemCnt(header_xml, "charProperties")
              = Len(Entries(header_xml, "charProperties", "/charProperties"))
           => ItemCnt(new_header_xml, "charProperties")
                 = Len(Entries(new_header_xml, "charProperties", "/charProperties"))
        /\ ItemCnt(header_xml, "borderFillList")
              = Len(Entries(header_xml, "borderFillList", "/borderFillList"))
           => ItemCnt(new_header_xml, "borderFillList")
                 = Len(Entries(new_header_xml, "borderFillList", "/borderFillList"))

\* The ids of the entries, in order.
IdsOfEntries(entries) == [j \in 1..Len(entries) |-> entries[j].id]

\* before, unchanged and in order, followed by entries with the ids.
AppendedTo(before, after, ids) ==
    /\ Len(after) = Len(before) + Len(ids)
    /\ SubSeq(after, 1, Len(before)) = before
    /\ IdsOfEntries(SubSeq(after, Len(before) + 1, Len(after))) = ids

\* C5: once update_header_xml has run, the charPr catalog holds the entries
\* it held, unchanged and in the same order, followed by the entries 7, 8,
\* 9 and 10, and the borderFill catalog holds the entries it held,
\* unchanged and in the same order, followed by the entry 3.
C5_CatalogsAppendOnly ==
    pc = "done" =>
        /\ AppendedTo(Entries(header_xml, "charProperties", "/charProperties"),
                      Entries(new_header_xml, "charProperties", "/charProperties"),
                      <<7, 8, 9, 10>>)
        /\ AppendedTo(Entries(header_xml, "borderFillList", "/borderFillList"),
                      Entries(new_header_xml, "borderFillList", "/borderFillList"),
                      <<3>>)

\* A header whose two catalogs held entries has been updated.
C5_Witness ==
    /\ pc = "done"
    /\ Len(Entries(header_xml, "charProperties", "/charProperties")) >= 2
    /\ Len(Entries(header_xml, "borderFillList", "/borderFillList")) >= 1
    /\ Len(Entries(new_header_xml, "charProperties", "/charProperties")) >= 6

\* The hc:prev fields of a header in order, each as <<id of the paraPr it
\* stands in, value>>, from the k-th piece on; owner is the id of the paraPr
\* that is open.
RECURSIVE PrevFields(_, _, _)
PrevFields(header, k, owner) ==
    IF k > Len(header) THEN <<>>
    ELSE IF header[k].tag = "paraPr" THEN PrevFields(header, k + 1, header[k].id)
    ELSE IF header[k].tag = "prev"
    THEN << <<owner, header[k].value>> >> \o PrevFields(header, k + 1, owner)
    ELSE PrevFields(header, k + 1, owner)

SpacingOf(id) == CASE id = 2 -> 800 [] id = 3 -> 600 [] id = 4 -> 400

FieldsKept(before, after) ==
    /\ Len(after) = Len(before)
    /\ \A j \in 1..Len(before) :
          /\ after[j][1] = before[j][1]
          /\ after[j][1] \notin {2, 3, 4} => after[j][2] = before[j][2]
          /\ after[j][1] \in {2, 3, 4} =>
                after[j][2] \in {before[j][2], SpacingOf(after[j][1])}

\* C7: once update_header_xml has run, the hc:prev of every paraPr whose id
\* is not 2, 3 or 4 has the value it had, and the hc:prev of the paraPr 2,
\* 3 or 4 has the value it had or 800, 600 or 400 respectively.
C7_SpacingOnlyOnHeadings ==
    pc = "done" =>
        FieldsKept(PrevFields(header_xml, 1, NoParaPr),
                   PrevFields(new_header_xml, 1, NoParaPr))

(***************************************************************************)
(* The repackaging of main.  An archive part is its name with its content; *)
(* a file is whether it exists, the parts written to it so far and whether *)
(* the writing was brought to its end.  shutil.move(tmp_path, output_path) *)
(* renames the file when os.rename can (MoveRename); when the two paths    *)
(* are on different file systems it copies the file to output_path and     *)
(* then removes it (MoveCopyOpen, CopyChunk, CopyClose).  The temporary    *)
(* file is made in the default temporary directory, the output path is the *)
(* caller's, so both happen.  Writing, copying and renaming can raise.     *)
(***************************************************************************)
Part(filename, data) == [filename |-> filename, data |-> data]

File(exists, parts, closed) == [exists |-> exists, parts |-> parts, closed |-> closed]
NoFile == File(FALSE, <<>>, FALSE)

\* src_zip.read(filename): the content of the part with the name.
ZipRead(src_zip, filename) ==
    src_zip[CHOOSE k \in 1..Len(src_zip) : src_zip[k].filename = filename].data

\* The if/elif chain of the repackaging loop with the contents of header.xml
\* and content.hpf exchanged.
WrittenData_Exchanged(src_zip, item, new) ==
    CASE item.filename = "Contents/section0.xml" -> new.section_xml
      [] item.filename = "Contents/content.hpf"  -> new.updated_header
      [] item.filename = "Contents/header.xml"   -> new.updated_hpf
      [] OTHER -> ZipRead(src_zip, item.filename)

\* The if/elif chain of the repackaging loop: what is written for an item.
WrittenData(src_zip, item, new) ==
    CASE item.filename = "Contents/section0.xml" -> new.section_xml
      [] item.filename = "Contents/content.hpf"  -> new.updated_hpf
      [] item.filename = "Contents/header.xml"   -> new.updated_header
      [] OTHER -> ZipRead(src_zip, item.filename)

(***************************************************************************)
(* Specification of the repackaging: the skeleton drawn in Init has 3 to   *)
(* MaxParts parts with distinct names, the three rewritten parts among     *)
(* them, in any order; the output path holds no file or an earlier         *)
(* package.                                                                *)
(***************************************************************************)
MaxParts == 4

PartNames ==
    <<"Contents/section0.xml", "Contents/content.hpf", "Contents/header.xml",
      "mimetype", "version.xml">>

\* The orders of the parts: sequences of positions in PartNames, no position
\* twice, the three rewritten parts all there.
PartOrders ==
    {order \in UNION {[1..n -> 1..Len(PartNames)] : n \in 3..MaxParts} :
        /\ \A j, k \in 1..Len(order) : j # k => order[j] # order[k]
        /\ \A q \in 1..3 : \E k \in 1..Len(order) : order[k] = q}

\* The content of the skeleton's part at a position of PartNames, and the
\* three contents built before the repackaging.
SkeletonData(q) == 10 * q
BuiltContents == [section_xml |-> 1, updated_hpf |-> 2, updated_header |-> 3]

SkeletonOf(order) ==
    [k \in 1..Len(order) |-> Part(PartNames[order[k]], SkeletonData(order[k]))]

EarlierPackage == File(TRUE, <<Part("mimetype", 99)>>, TRUE)

InitPackage ==
    /\ IdleLineseg /\ IdleTable /\ IdleConvert /\ IdleHeader
    /\ IdleMath /\ IdleHpf
    /\ \E order \in PartOrders : skeleton = SkeletonOf(order)
    /\ built = BuiltContents
    /\ tmp_file = NoFile
    /\ prior_output \in {NoFile, EarlierPackage}
    /\ output_file = prior_output
    /\ pc = "start"

UnchangedByPackage ==
    UNCHANGED <<varsLineseg, varsTable, varsConvert, varsHeader, varsMath, varsHpf>>

\* tempfile.NamedTemporaryFile(suffix='.hwpx', delete=False)
CreateTemp ==
    /\ pc = "start"
    /\ tmp_file' = File(TRUE, <<>>, FALSE)
    /\ pc' = "writing"
    /\ UNCHANGED <<skeleton, built, output_file, prior_output>>
    /\ UnchangedByPackage

\* One turn of "for item in src_zip.infolist()".
WriteItem ==
    /\ pc = "writing"
    /\ Len(tmp_file.parts) < Len(skeleton)
    /\ \E item \in {skeleton[Len(tmp_file.parts) + 1]} :
          tmp_file' = [tmp_file EXCEPT
                          !.parts = Append(@, Part(item.filename,
                                                   WrittenData(skeleton, item, built)))]
    /\ UNCHANGED <<skeleton, built, output_file, prior_output, pc>>
    /\ UnchangedByPackage

\* The end of "with zipfile.ZipFile(tmp_path, 'w', ...) as dst_zip".
CloseZip ==
    /\ pc = "writing"
    /\ Len(tmp_file.parts) = Len(skeleton)
    /\ tmp_file' = [tmp_file EXCEPT !.closed = TRUE]
    /\ pc' = "written"
    /\ UNCHANGED <<skeleton, built, output_file, prior_output>>
    /\ UnchangedByPackage

\* An exception while the temporary archive is written.
RaiseInWrite ==
    /\ pc = "writing"
    /\ pc' = "except"
    /\ UNCHANGED varsPackage
    /\ UnchangedByPackage

\* shutil.move where os.rename succeeds.
MoveRename ==
    /\ pc = "written"
    /\ output_file' = tmp_file
    /\ tmp_file' = NoFile
    /\ pc' = "done"
    /\ UNCHANGED <<skeleton, built, prior_output>>
    /\ UnchangedByPackage

\* shutil.move where os.rename fails across file systems: the copy opens
\* output_path for writing, which empties it.
MoveCopyOpen ==
    /\ pc = "written"
    /\ output_file' = File(TRUE, <<>>, FALSE)
    /\ pc' = "copying"
    /\ UNCHANGED <<skeleton, built, tmp_file, prior_output>>
    /\ UnchangedByPackage

\* The copy writes the next piece of the temporary file.
CopyChunk ==
    /\ pc = "copying"
    /\ Len(output_file.parts) < Len(tmp_file.parts)
    /\ output_file' = [output_file EXCEPT
                          !.parts = Append(@, tmp_file.parts[Len(output_file.parts) + 1])]
    /\ UNCHANGED <<skeleton, built, tmp_file, prior_output, pc>>
    /\ UnchangedByPackage

\* The copy ends and shutil.move removes the temporary file.
CopyClose ==
    /\ pc = "copying"
    /\ Len(output_file.parts) = Len(tmp_file.parts)
    /\ output_file' = [output_file EXCEPT !.closed = TRUE]
    /\ tmp_file' = NoFile
    /\ pc' = "done"
    /\ UNCHANGED <<skeleton, built, prior_output>>
    /\ UnchangedByPackage

\* An exception in shutil.move: the rename is refused, or the copy fails.
RaiseInMove ==
    /\ pc \in {"written", "copying"}
    /\ pc' = "except"
    /\ UNCHANGED varsPackage
    /\ UnchangedByPackage

\* "except Exception: if os.path.exists(tmp_path): os.unlink(tmp_path); raise"
Cleanup ==
    /\ pc = "except"
    /\ tmp_file' = IF tmp_file.exists THEN NoFile ELSE tmp_file
    /\ pc' = "failed"
    /\ UNCHANGED <<skeleton, built, output_file, prior_output>>
    /\ UnchangedByPackage

NextPackage ==
    \/ CreateTemp \/ WriteItem \/ CloseZip \/ RaiseInWrite
    \/ MoveRename \/ MoveCopyOpen \/ CopyChunk \/ CopyClose \/ RaiseInMove
    \/ Cleanup

SpecPackage == InitPackage /\ [][NextPackage]_vars

(***************************************************************************)
(* Properties of the repackaging.                                          *)
(***************************************************************************)
RewrittenParts ==
    {"Contents/section0.xml", "Contents/content.hpf", "Contents/header.xml"}

\* The parts of the archive are the skeleton's by name, each once and in the
\* skeleton's order; a rewritten part holds the content built for it, any
\* other part the content it has in the skeleton.
AssembledFrom(parts) ==
    /\ Len(parts) = Len(skeleton)
    /\ \A k \in 1..Len(parts) :
          /\ parts[k].filename = skeleton[k].filename
          /\ \A j \in 1..Len(parts) : j # k => parts[j].filename # parts[k].filename
          /\ parts[k].filename \notin RewrittenParts => parts[k].data = skeleton[k].data
          /\ parts[k].filename = "Contents/section0.xml" =>
                parts[k].data = built.section_xml
          /\ parts[k].filename = "Contents/content.hpf" =>
                parts[k].data = built.updated_hpf
          /\ parts[k].filename = "Contents/header.xml" =>
                parts[k].data = built.updated_header

\* C6: the archive written at tmp_path, once closed, and the archive at
\* output_path, once main is done, hold exactly the skeleton's part names,
\* each once and in the skeleton's order, every part outside the three
\* rewritten ones with the skeleton's content and each of the three with
\* the content built for it.
C6_PartsAssembledInOrder ==
    /\ (tmp_file.exists /\ tmp_file.closed) => AssembledFrom(tmp_file.parts)
    /\ pc = "done" => AssembledFrom(output_file.parts)

\* main is done for a skeleton that has a part besides the rewritten ones.
C6_Witness ==
    /\ pc = "done"
    /\ output_file.closed
    /\ Len(output_file.parts) > 3
    /\ \E k \in 1..Len(output_file.parts) :
          output_file.parts[k].filename \notin RewrittenParts

\* The file holds the whole of the new package.
CompletePackage(f) ==
    f.exists /\ f.closed /\ AssembledFrom(f.parts)

\* C10: at every step the file at output_path is what it was when main
\* started or the complete new package; it is changed only after the
\* temporary archive is completely written; and when main has failed the
\* temporary file is gone and the file at output_path is what it was.
C10_OutputNeverPartial ==
    /\ output_file = prior_output \/ CompletePackage(output_file)
    /\ output_file # prior_output => pc \notin {"start", "writing"}
    /\ pc = "failed" => ~tmp_file.exists /\ output_file = prior_output

(***************************************************************************)
(* Specification of the list branches: convert_blocks is run on one list,  *)
(* bulleted or numbered from a start drawn from ListStarts, of up to       *)
(* MaxItems items drawn from SampleItems, at indent level 0 or 1.          *)
(***************************************************************************)
MaxItems == 2

ListStarts == {1, 3, 9}

SampleItems ==
    << <<Para(<<Str(TxtA)>>)>>,
       <<Para(<<Str(TxtA)>>), Plain(<<Str(TxtB)>>)>>,
       <<>>,
       <<RawBlock(TxtA)>>,
       <<Para(<<Math("DisplayMath", TxtX)>>), Para(<<Str(TxtA)>>)>>,
       <<CodeBlock(TxtCode)>>,
       <<Table(<<Plain(<<Str(TxtA)>>)>>, <<Row(<<CellOf(TxtB)>>)>>, <<>>)>>,
       <<Table(<<>>, <<Row(<<CellOf(TxtA), CellOf(TxtB)>>)>>, <<>>)>>,
       <<BlockQuote(<<OrderedList(1, << <<Para(<<Str(TxtB)>>)>> >>)>>)>> >>

ItemsOf(choice) == [k \in 1..Len(choice) |-> SampleItems[choice[k]]]

InitList ==
    /\ IdleLineseg /\ IdleTable /\ IdleHeader /\ IdlePackage
    /\ IdleMath /\ IdleHpf
    /\ \E choice \in SeqsUpTo(1..Len(SampleItems), MaxItems) :
          \/ blocks = <<BulletList(ItemsOf(choice))>>
          \/ \E start_num \in ListStarts :
                blocks = <<OrderedList(start_num, ItemsOf(choice))>>
    /\ meta = <<>>
    /\ indent_level \in {0, 1}
    /\ id_before = PARA_ID_SEED
    /\ para_id_counter = PARA_ID_SEED
    /\ content = <<>>
    /\ nesting = <<>>
    /\ pc = "start"

ConvertList ==
    /\ pc = "start"
    /\ \E r \in {convert_blocks(blocks, indent_level, para_id_counter)} :
          /\ content' = r.parts
          /\ para_id_counter' = r.ctr
    /\ pc' = "done"
    /\ UNCHANGED <<blocks, meta, indent_level, id_before, nesting, varsLineseg, varsTable,
                   varsHeader, varsPackage, varsMath, varsHpf>>

NextList == ConvertList

SpecList == InitList /\ [][NextList]_vars

(***************************************************************************)
(* Properties of the list branches.                                        *)
(***************************************************************************)
\* The text runs of an element in document order: a paragraph has one, an
\* equation paragraph none, a table element the caption's, the cells' and
\* the one that closes its paragraph.
TextRuns(elem) ==
    CASE elem.kind = "p"   -> <<elem.t>>
      [] elem.kind = "eq"  -> <<>>
      [] elem.kind = "tbl" ->
            [j \in 1..Len(elem.caption) |-> elem.caption[j].t]
            \o Concat([r \in 1..Len(elem.rows) |->
                          [k \in 1..Len(elem.rows[r]) |-> elem.rows[r][k].t]])
            \o <<elem.t>>

\* marked is elem with the marker in front of its first text run.
MarkedRuns(marked, plain, marker) ==
    /\ Len(plain) > 0
    /\ Len(marked) = Len(plain)
    /\ marked[1] = marker \o plain[1]
    /\ \A j \in 2..Len(plain) : marked[j] = plain[j]

MarkedWith(marked, elem, marker) ==
    /\ marked.kind = elem.kind
    /\ marked.id = elem.id
    /\ MarkedRuns(TextRuns(marked), TextRuns(elem), marker)

\* out, from position pos + 1 on, holds the elements of the item, the first
\* with the marker on its text run and the others as they are.
ItemMarked(item_parts, marker, out, pos) ==
    /\ pos + Len(item_parts) <= Len(out)
    /\ Len(item_parts) > 0 => MarkedWith(out[pos + 1], item_parts[1], marker)
    /\ \A j \in 2..Len(item_parts) : out[pos + j] = item_parts[j]

\* out holds, from position pos + 1 on, the items from 0-based position idx
\* on, the item at position k numbered start_num + k.
RECURSIVE ItemsNumbered(_, _, _, _, _, _, _)
ItemsNumbered(items, idx, start_num, level, counter, out, pos) ==
    IF idx >= Len(items) THEN pos = Len(out)
    ELSE /\ ItemMarked(convert_blocks(items[idx + 1], level, counter).parts,
                       NumberMarker(start_num + idx), out, pos)
         /\ ItemsNumbered(items, idx + 1, start_num, level,
                          convert_blocks(items[idx + 1], level, counter).ctr, out,
                          pos + Len(convert_blocks(items[idx + 1], level, counter).parts))

\* C8: once an OrderedList with start s is converted, the item at 0-based
\* position k that produced a paragraph has "<s+k>. " in front of the text
\* run of its first paragraph and its other paragraphs are as the item
\* alone produces them; items that produced nothing still count.
C8_ItemsNumberedFromStart ==
    (pc = "done" /\ blocks[1].t = "OrderedList") =>
        ItemsNumbered(blocks[1].c[2], 0, blocks[1].c[1][1], indent_level, id_before,
                      content, 0)

\* out holds, from position pos + 1 on, the items from 0-based position idx
\* on, each converted at the level of the list and each with one bullet
\* marker, on the text run of the first element it produced.
RECURSIVE ItemsBulleted(_, _, _, _, _, _)
ItemsBulleted(items, idx, level, counter, out, pos) ==
    IF idx >= Len(items) THEN pos = Len(out)
    ELSE /\ ItemMarked(convert_blocks(items[idx + 1], level, counter).parts,
                       BULLET_MARKER, out, pos)
         /\ ItemsBulleted(items, idx + 1, level,
                          convert_blocks(items[idx + 1], level, counter).ctr, out,
                          pos + Len(convert_blocks(items[idx + 1], level, counter).parts))

\* C14: once a BulletList is converted, each item has been converted at the
\* indent level of the list; an item that produced elements has the bullet
\* marker in front of the text run of the first element it produced and its
\* later elements are as the item alone produces them; an item that
\* produced nothing adds nothing; whatever the item holds (an equation, a
\* table or a nested list first).
C14_OneBulletPerItem ==
    (pc = "done" /\ blocks[1].t = "BulletList") =>
        ItemsBulleted(blocks[1].c, 0, indent_level, id_before, content, 0)

(***************************************************************************)
(* Properties of the conversion: kinds without a handler.                  *)
(***************************************************************************)
KnownInlineKinds ==
    {"Str", "Space", "SoftBreak", "LineBreak", "Code", "Link", "Image", "Quoted",
     "Cite", "Math", "Span"} \cup EmphasisKinds

KnownBlockKinds ==
    {"Para", "Plain", "Header", "CodeBlock", "BulletList", "OrderedList",
     "BlockQuote", "Table", "HorizontalRule", "Div", "DefinitionList", "LineBlock"}

\* The inlines with every inline of an unknown kind left out, or, where
\* blank is TRUE, replaced by an empty Str.
RECURSIVE WithoutUnknownInlines(_, _)

InlineWithoutUnknown(inline, blank) ==
    CASE inline.t \in EmphasisKinds ->
            [inline EXCEPT !.c = WithoutUnknownInlines(@, blank)]
      [] inline.t \in {"Link", "Image", "Quoted", "Cite", "Span"} ->
            [inline EXCEPT !.c[2] = WithoutUnknownInlines(@, blank)]
      [] OTHER -> inline

WithoutUnknownInlines(inlines, blank) ==
    IF Len(inlines) = 0 THEN <<>>
    ELSE (IF Head(inlines).t \in KnownInlineKinds
          THEN <<InlineWithoutUnknown(Head(inlines), blank)>>
          ELSE IF blank THEN <<Str(<<>>)>> ELSE <<>>)
         \o WithoutUnknownInlines(Tail(inlines), blank)

\* The blocks with every block of an unknown kind left out and the inlines
\* of an unknown kind left out or blanked.
RECURSIVE WithoutUnknown(_, _)

CellWithoutUnknown(cell, blank) ==
    IF Len(cell) > 4 THEN [cell EXCEPT ![5] = WithoutUnknown(@, blank)] ELSE cell

RowWithoutUnknown(row, blank) ==
    IF Len(row) > 1
    THEN [row EXCEPT ![2] = [k \in 1..Len(row[2]) |-> CellWithoutUnknown(row[2][k], blank)]]
    ELSE row

RowsWithoutUnknown(rows, blank) ==
    [k \in 1..Len(rows) |-> RowWithoutUnknown(rows[k], blank)]

BlockWithoutUnknown(b, blank) ==
    CASE b.t \in {"Para", "Plain"} ->
            [b EXCEPT !.c = WithoutUnknownInlines(@, blank)]
      [] b.t = "Header" ->
            [b EXCEPT !.c[3] = WithoutUnknownInlines(@, blank)]
      [] b.t = "BulletList" ->
            [b EXCEPT !.c = [k \in 1..Len(b.c) |-> WithoutUnknown(b.c[k], blank)]]
      [] b.t = "OrderedList" ->
            [b EXCEPT !.c[2] = [k \in 1..Len(b.c[2]) |-> WithoutUnknown(b.c[2][k], blank)]]
      [] b.t = "BlockQuote" ->
            [b EXCEPT !.c = WithoutUnknown(@, blank)]
      [] b.t = "Div" ->
            [b EXCEPT !.c[2] = WithoutUnknown(@, blank)]
      [] b.t = "DefinitionList" ->
            [b EXCEPT !.c = [k \in 1..Len(b.c) |->
                               << WithoutUnknownInlines(b.c[k][1], blank),
                                  [d \in 1..Len(b.c[k][2]) |->
                                      WithoutUnknown(b.c[k][2][d], blank)] >>]]
      [] b.t = "LineBlock" ->
            [b EXCEPT !.c = [k \in 1..Len(b.c) |-> WithoutUnknownInlines(b.c[k], blank)]]
      [] b.t = "Table" ->
            [b EXCEPT !.c[2][2] = WithoutUnknown(@, blank),
                      !.c[4][2] = RowsWithoutUnknown(@, blank),
                      !.c[5] = [g \in 1..Len(b.c[5]) |->
                                   [b.c[5][g] EXCEPT ![4] = RowsWithoutUnknown(@, blank)]]]
      [] OTHER -> b

WithoutUnknown(blks, blank) ==
    IF Len(blks) = 0 THEN <<>>
    ELSE (IF Head(blks).t \in KnownBlockKinds
          THEN <<BlockWithoutUnknown(Head(blks), blank)>> ELSE <<>>)
         \o WithoutUnknown(Tail(blks), blank)

\* What the conversion that was run gives for the document without its
\* nodes of unknown kinds.
ResultWithoutUnknown(blank) ==
    build_section_xml(WithoutUnknown(blocks, blank), meta, id_before)

\* C9 as claimed: once the conversion has run, the elements and the counter
\* are those the conversion gives for the document with every block and
\* every inline of an unknown kind left out.
C9_UnknownAsAbsent ==
    pc = "done" =>
        /\ content = ResultWithoutUnknown(FALSE).parts
        /\ para_id_counter = ResultWithoutUnknown(FALSE).ctr

\* s ends with suffix.
EndsWith(s, suffix) ==
    /\ Len(suffix) <= Len(s)
    /\ SubSeq(s, Len(s) - Len(suffix) + 1, Len(s)) = suffix

\* a is b, or a is the text paragraph of the source of the equation b, with
\* b's id.
SameOrTextOfEquation(a, b) ==
    \/ a = b
    \/ /\ a.kind = "p" /\ b.kind = "eq"
       /\ a.id = b.id
       /\ EndsWith(a.t, xml_escape(b.latex))

ElementsMatch(got, want) ==
    /\ Len(got) = Len(want)
    /\ \A k \in 1..Len(want) : SameOrTextOfEquation(got[k], want[k])

\* C9: once the conversion has run, the elements and the counter are those
\* the conversion gives for the document with every block of an unknown
\* kind left out and every inline of an unknown kind replaced by an empty
\* Str; against the document with those inlines left out too, the counter
\* and the ids are the same and every element is the same, but for a text
\* paragraph that stands where the other document gives an equation.
C9_UnknownAsAbsentOrBlank ==
    pc = "done" =>
        /\ content = ResultWithoutUnknown(TRUE).parts
        /\ para_id_counter = ResultWithoutUnknown(TRUE).ctr
        /\ ElementsMatch(content, ResultWithoutUnknown(FALSE).parts)
        /\ para_id_counter = ResultWithoutUnknown(FALSE).ctr

\* A document with a block of an unknown kind, and a Math beside an inline
\* of an unknown kind, has been converted.
C9_Witness ==
    /\ pc = "done"
    /\ \E k \in 1..Len(blocks) : blocks[k].t = "BulletList"
          /\ Len(blocks[k].c[1]) > 0 /\ blocks[k].c[1][1].t \notin KnownBlockKinds
    /\ \E k \in 1..Len(content) :
          content[k].kind = "p" /\ ResultWithoutUnknown(FALSE).parts[k].kind = "eq"

\* ---------------------------------------------------------------------------
\* latex_to_hwp_script: LaTeX math to HWP equation script
\* ---------------------------------------------------------------------------

\* str.strip() removes the white space of Unicode at both ends.
WHITESPACE ==
    {9, 10, 11, 12, 13, 28, 29, 30, 31, 32, 133, 160, 5760, 8232, 8233, 8239,
     8287, 12288} \cup (8192..8202)

DOLLAR == 36
BACKSLASH == 92
CLOSE_BRACE == 125

RECURSIVE LStrip(_, _)
LStrip(s, chars) ==
    IF s # <<>> /\ Head(s) \in chars THEN LStrip(Tail(s), chars) ELSE s

RECURSIVE RStrip(_, _)
RStrip(s, chars) ==
    IF s # <<>> /\ s[Len(s)] \in chars
    THEN RStrip(SubSeq(s, 1, Len(s) - 1), chars)
    ELSE s

Strip(s, chars) == RStrip(LStrip(s, chars), chars)

\* s has the literal lit at offset i (offsets from 1).
LitAt(s, i, lit) ==
    /\ i + Len(lit) - 1 <= Len(s)
    /\ SubSeq(s, i, i + Len(lit) - 1) = lit

\* [^}]*\} from offset i: the offset of the first closing brace, 0 if none.
RECURSIVE CloseFrom(_, _)
CloseFrom(s, i) ==
    IF i > Len(s) THEN 0
    ELSE IF s[i] = CLOSE_BRACE THEN i
    ELSE CloseFrom(s, i + 1)

\* The four patterns with brace groups and their replacement templates:
\* open ([^}]*) mid ([^}]*) \}  becomes  pre \1 sep \2 post; the pattern of
\* \sqrt has one group.
FRAC == [open |-> <<92, 102, 114, 97, 99, 123>>, mid |-> <<125, 123>>, groups |-> 2,
         pre |-> <<123>>, sep |-> <<125, 32, 111, 118, 101, 114, 32, 123>>, post |-> <<125>>]
SUM  == [open |-> <<92, 115, 117, 109, 95, 123>>, mid |-> <<125, 94, 123>>, groups |-> 2,
         pre |-> <<115, 117, 109, 32, 102, 114, 111, 109, 123>>, sep |-> <<125, 32, 116, 111, 123>>, post |-> <<125>>]
INT  == [open |-> <<92, 105, 110, 116, 95, 123>>, mid |-> <<125, 94, 123>>, groups |-> 2,
         pre |-> <<105, 110, 116, 32, 102, 114, 111, 109, 123>>, sep |-> <<125, 32, 116, 111, 123>>, post |-> <<125>>]
SQRT == [open |-> <<92, 115, 113, 114, 116, 123>>, mid |-> <<>>, groups |-> 1,
         pre |-> <<115, 113, 114, 116, 123>>, sep |-> <<>>, post |-> <<125>>]

\* The match of pattern pat at offset i: whether there is one, the offset
\* after it, and its replacement.
NoMatch == [ok |-> FALSE, next |-> 0, out |-> <<>>]

SecondGroup(s, pat, a, c1) ==
    IF ~LitAt(s, c1, pat.mid) THEN NoMatch
    ELSE IF CloseFrom(s, c1 + Len(pat.mid)) = 0 THEN NoMatch
    ELSE [ok |-> TRUE, next |-> CloseFrom(s, c1 + Len(pat.mid)) + 1,
          out |-> pat.pre \o SubSeq(s, a, c1 - 1) \o pat.sep
                  \o SubSeq(s, c1 + Len(pat.mid),
                            CloseFrom(s, c1 + Len(pat.mid)) - 1)
                  \o pat.post]

FirstGroup(s, pat, a, c1) ==
    IF c1 = 0 THEN NoMatch
    ELSE IF pat.groups = 1
    THEN [ok |-> TRUE, next |-> c1 + 1,
          out |-> pat.pre \o SubSeq(s, a, c1 - 1) \o pat.post]
    ELSE SecondGroup(s, pat, a, c1)

MatchAt(s, i, pat) ==
    IF ~LitAt(s, i, pat.open) THEN NoMatch
    ELSE FirstGroup(s, pat, i + Len(pat.open), CloseFrom(s, i + Len(pat.open)))

\* re.sub(pattern, template, s): every match, left to right, not overlapping.
RECURSIVE SubFrom(_, _, _, _)
SubStep(s, i, pat, acc, m) ==
    IF m.ok THEN SubFrom(s, m.next, pat, acc \o m.out)
    ELSE SubFrom(s, i + 1, pat, Append(acc, s[i]))

SubFrom(s, i, pat, acc) ==
    IF i > Len(s) THEN acc ELSE SubStep(s, i, pat, acc, MatchAt(s, i, pat))

Sub(s, pat) == SubFrom(s, 1, pat, <<>>)

\* s.replace(old, new) with old and new exchanged.
RECURSIVE ReplaceFrom_Exchanged(_, _, _, _, _)
ReplaceFrom_Exchanged(s, i, old, new, acc) ==
    IF i > Len(s) THEN acc
    ELSE IF LitAt(s, i, new)
    THEN ReplaceFrom_Exchanged(s, i + Len(new), old, new, acc \o old)
    ELSE ReplaceFrom_Exchanged(s, i + 1, old, new, Append(acc, s[i]))

\* s.replace(old, new): every occurrence, left to right, not overlapping.
RECURSIVE ReplaceFrom(_, _, _, _, _)
ReplaceFrom(s, i, old, new, acc) ==
    IF i > Len(s) THEN acc
    ELSE IF LitAt(s, i, old)
    THEN ReplaceFrom(s, i + Len(old), old, new, acc \o new)
    ELSE ReplaceFrom(s, i + 1, old, new, Append(acc, s[i]))

Replace(s, old, new) == ReplaceFrom(s, 1, old, new, <<>>)

LEFT_PAREN  == [cmd |-> <<92, 108, 101, 102, 116, 40>>, repl |-> <<108, 101, 102, 116, 40>>]
RIGHT_PAREN == [cmd |-> <<92, 114, 105, 103, 104, 116, 41>>, repl |-> <<114, 105, 103, 104, 116, 41>>]

\* The commands with a fixed spelling, in the order of the loop.
FIXED_SYMBOLS ==
    << [cmd |-> <<92, 103, 101, 113>>, repl |-> <<62, 61>>],
       [cmd |-> <<92, 108, 101, 113>>, repl |-> <<60, 61>>],
       [cmd |-> <<92, 116, 105, 109, 101, 115>>, repl |-> <<116, 105, 109, 101, 115>>],
       [cmd |-> <<92, 99, 100, 111, 116>>, repl |-> <<99, 100, 111, 116>>],
       [cmd |-> <<92, 105, 110, 102, 116, 121>>, repl |-> <<105, 110, 102>>],
       [cmd |-> <<92, 112, 109>>, repl |-> <<43, 45>>] >>

RECURSIVE ReplaceAll(_, _, _)
ReplaceAll(s, symbols, k) ==
    IF k > Len(symbols) THEN s
    ELSE ReplaceAll(Replace(s, symbols[k].cmd, symbols[k].repl), symbols, k + 1)

\* [a-zA-Z]
IsLetter(c) == c \in (65..90) \cup (97..122)

RECURSIVE LettersEnd(_, _)
LettersEnd(s, i) ==
    IF i <= Len(s) /\ IsLetter(s[i]) THEN LettersEnd(s, i + 1) ELSE i

\* re.sub(r'\\([a-zA-Z]+)', r'\1', s): the backslash of a command is dropped.
RECURSIVE StripCommandsFrom(_, _, _)
StripCommandsFrom(s, i, acc) ==
    IF i > Len(s) THEN acc
    ELSE IF s[i] = BACKSLASH /\ LettersEnd(s, i + 1) > i + 1
    THEN StripCommandsFrom(s, LettersEnd(s, i + 1),
                           acc \o SubSeq(s, i + 1, LettersEnd(s, i + 1) - 1))
    ELSE StripCommandsFrom(s, i + 1, Append(acc, s[i]))

StripCommands(s) == StripCommandsFrom(s, 1, <<>>)

latex_to_hwp_script(ltx) ==
    StripCommands(
        ReplaceAll(
            Replace(
                Replace(
                    Sub(Sub(Sub(Sub(Strip(Strip(ltx, WHITESPACE), {DOLLAR}),
                                    FRAC), SUM), INT), SQRT),
                    LEFT_PAREN.cmd, LEFT_PAREN.repl),
                RIGHT_PAREN.cmd, RIGHT_PAREN.repl),
            FIXED_SYMBOLS, 1))

\* Formulas are built from at most MaxPieces of these pieces.
MaxPieces == 2

Pieces ==
    << <<92>>,
       <<92, 103, 101, 113>>,
       <<92, 108, 101, 113>>,
       <<92, 116, 105, 109, 101, 115>>,
       <<92, 99, 100, 111, 116>>,
       <<92, 105, 110, 102, 116, 121>>,
       <<92, 112, 109>>,
       <<92, 97, 108, 112, 104, 97>>,
       <<116, 121>>,
       <<32>>,
       <<36>>,
       <<92, 102, 114, 97, 99, 123, 97, 125, 123, 98, 125>>,
       <<92, 115, 117, 109, 95, 123, 105, 125, 94, 123, 110, 125>>,
       <<92, 105, 110, 116, 95, 123, 97, 125, 94, 123, 98, 125>>,
       <<92, 115, 113, 114, 116, 123, 120, 125>>,
       <<92, 108, 101, 102, 116, 40>>,
       <<92, 114, 105, 103, 104, 116, 41>>,
       <<62, 61>>,
       <<60, 61>>,
       <<116, 105, 109, 101, 115>>,
       <<99, 100, 111, 116>>,
       <<105, 110, 102>>,
       <<43, 45>>,
       <<125>>,
       <<92, 102, 114, 97, 99, 123, 97, 125>>,
       <<36, 32>>,
       <<92, 92>> >>

RECURSIVE Joined(_)
Joined(ps) == IF ps = <<>> THEN <<>> ELSE Pieces[Head(ps)] \o Joined(Tail(ps))

InitMath ==
    /\ \E ps \in SeqsUpTo(1..Len(Pieces), MaxPieces) : latex = Joined(ps)
    /\ script = <<>>
    /\ script_again = <<>>
    /\ IdleLineseg /\ IdleTable /\ IdleConvert /\ IdleHeader /\ IdlePackage
    /\ IdleHpf
    /\ pc = "start"

Transliterate ==
    /\ pc = "start"
    /\ script' = latex_to_hwp_script(latex)
    /\ pc' = "once"
    /\ UNCHANGED <<latex, script_again, varsLineseg, varsTable, varsConvert,
                   varsHeader, varsPackage, varsHpf>>

TransliterateAgain ==
    /\ pc = "once"
    /\ script_again' = latex_to_hwp_script(script)
    /\ pc' = "done"
    /\ UNCHANGED <<latex, script, varsLineseg, varsTable, varsConvert,
                   varsHeader, varsPackage, varsHpf>>

NextMath == Transliterate \/ TransliterateAgain

SpecMath == InitMath /\ [][NextMath]_vars

\* The number of occurrences of tok in s.
Count(tok, s) == Cardinality({i \in 1..Len(s) : LitAt(s, i, tok)})

FixedSpellings == {FIXED_SYMBOLS[k].repl : k \in 1..Len(FIXED_SYMBOLS)}

NoEscape(s) == \A i \in 1..Len(s) : s[i] # BACKSLASH

\* The trimming of the first two calls, stated on its own: what is left is
\* a stretch of s, with only white space and then only dollar signs cut
\* from either end.
IsTrimOf(r, s) ==
    \E a \in 1..(Len(s) + 1) : \E b \in (a - 1)..Len(s) :
        /\ r = SubSeq(s, a, b)
        /\ \A i \in (1..(a - 1)) \cup ((b + 1)..Len(s)) :
               s[i] \in WHITESPACE \cup {DOLLAR}

\* C11: latex_to_hwp_script returns a string for every input; on an input
\* without a backslash the fixed spellings >=, <=, times, cdot, inf and +-
\* are left as they are (the script is the input, trimmed); and a second pass
\* over a script keeps every occurrence of a fixed spelling the first pass
\* left in it.
C11_FixedSpellingsKept ==
    /\ pc # "start" =>
          /\ script \in Seq(Nat)
          /\ NoEscape(latex) =>
                /\ IsTrimOf(script, latex)
                /\ \A tok \in FixedSpellings :
                       Count(tok, script) = Count(tok, latex)
    /\ pc = "done" =>
          /\ script_again \in Seq(Nat)
          /\ \A tok \in FixedSpellings :
                 Count(tok, script_again) >= Count(tok, script)
          /\ NoEscape(script) => IsTrimOf(script_again, script)

\* A formula of fixed spellings whose second pass still changes the script
\* (a blank left by the first pass goes), the spelling staying.
C11_Witness ==
    /\ pc = "done"
    /\ NoEscape(latex)
    /\ Count(<<116, 105, 109, 101, 115>>, script) = 1
    /\ script_again # script
    /\ Count(<<116, 105, 109, 101, 115>>, script_again) = 1

\* ---------------------------------------------------------------------------
\* update_content_hpf: the metadata of content.hpf
\* ---------------------------------------------------------------------------

\* content.hpf is the sequence of its elements: the text of the start tag up
\* to its end mark, whether the element is self-closing, the text it holds
\* and its end tag.
Element(open, value, close) ==
    [open |-> open, selfclosing |-> FALSE, value |-> value, close |-> close]
SelfClosing(open, close) ==
    [open |-> open, selfclosing |-> TRUE, value |-> <<>>, close |-> close]

\* The first group of each pattern, and the end tag the pattern and its
\* template spell out.
TITLE_TAG      == <<60, 111, 112, 102, 58, 116, 105, 116, 108, 101>>
CREATOR_TAG    == <<60, 111, 112, 102, 58, 109, 101, 116, 97, 32, 110, 97, 109, 101, 61, 34, 99, 114, 101, 97, 116, 111, 114, 34, 32, 99, 111, 110, 116, 101, 110, 116, 61, 34, 116, 101, 120, 116, 34>>
LASTSAVEBY_TAG == <<60, 111, 112, 102, 58, 109, 101, 116, 97, 32, 110, 97, 109, 101, 61, 34, 108, 97, 115, 116, 115, 97, 118, 101, 98, 121, 34, 32, 99, 111, 110, 116, 101, 110, 116, 61, 34, 116, 101, 120, 116, 34>>
MODIFIED_TAG   == <<60, 111, 112, 102, 58, 109, 101, 116, 97, 32, 110, 97, 109, 101, 61, 34, 77, 111, 100, 105, 102, 105, 101, 100, 68, 97, 116, 101, 34, 32, 99, 111, 110, 116, 101, 110, 116, 61, 34, 116, 101, 120, 116, 34>>
DATE_TAG       == <<60, 111, 112, 102, 58, 109, 101, 116, 97, 32, 110, 97, 109, 101, 61, 34, 100, 97, 116, 101, 34, 32, 99, 111, 110, 116, 101, 110, 116, 61, 34, 116, 101, 120, 116, 34>>
SUBJECT_TAG    == <<60, 111, 112, 102, 58, 109, 101, 116, 97, 32, 110, 97, 109, 101, 61, 34, 115, 117, 98, 106, 101, 99, 116, 34, 32, 99, 111, 110, 116, 101, 110, 116, 61, 34, 116, 101, 120, 116, 34>>
TITLE_END      == <<60, 47, 111, 112, 102, 58, 116, 105, 116, 108, 101, 62>>
META_END       == <<60, 47, 111, 112, 102, 58, 109, 101, 116, 97, 62>>

\* The escapes of a replacement template that stand for one character.
TemplateEscape(c) ==
    CASE c = 97  -> 7
      [] c = 98  -> 8
      [] c = 102 -> 12
      [] c = 110 -> 10
      [] c = 114 -> 13
      [] c = 116 -> 9
      [] c = 118 -> 11
      [] c = 92  -> 92
      [] OTHER   -> 0 - 1

IsDigit(c) == c \in 48..57
IsOctal(c) == c \in 48..55

Raised == [raised |-> TRUE, out |-> <<>>]

\* The expansion of a replacement template from offset i on, as re.sub
\* parses it: \1 and \2 are the groups (a group that did not take part is
\* empty), \0 and three octal digits a character code, a backslash before any
\* other digits a group the patterns do not have, \g a named group (none of
\* the texts that can follow it here is a group name), a backslash before
\* a, b, f, n, r, t, v or a backslash one character, before any other letter
\* an error, and before anything else it stays.
RECURSIVE Expand(_, _, _, _, _)
ExpandDigits(tpl, i, g1, g2, acc) ==
    IF tpl[i + 1] = 48
    THEN IF i + 2 <= Len(tpl) /\ IsOctal(tpl[i + 2])
         THEN IF i + 3 <= Len(tpl) /\ IsOctal(tpl[i + 3])
              THEN Expand(tpl, i + 4, g1, g2,
                          Append(acc, 8 * (tpl[i + 2] - 48) + tpl[i + 3] - 48))
              ELSE Expand(tpl, i + 3, g1, g2, Append(acc, tpl[i + 2] - 48))
         ELSE Expand(tpl, i + 2, g1, g2, Append(acc, 0))
    ELSE IF i + 2 <= Len(tpl) /\ IsDigit(tpl[i + 2])
    THEN IF /\ IsOctal(tpl[i + 1]) /\ IsOctal(tpl[i + 2])
            /\ i + 3 <= Len(tpl) /\ IsOctal(tpl[i + 3])
            /\ 64 * (tpl[i + 1] - 48) + 8 * (tpl[i + 2] - 48) + tpl[i + 3] - 48 <= 255
         THEN Expand(tpl, i + 4, g1, g2,
                     Append(acc, 64 * (tpl[i + 1] - 48) + 8 * (tpl[i + 2] - 48)
                                 + tpl[i + 3] - 48))
         ELSE Raised
    ELSE IF tpl[i + 1] = 49 THEN Expand(tpl, i + 2, g1, g2, acc \o g1)
    ELSE IF tpl[i + 1] = 50 THEN Expand(tpl, i + 2, g1, g2, acc \o g2)
    ELSE Raised

Expand(tpl, i, g1, g2, acc) ==
    IF i > Len(tpl) THEN [raised |-> FALSE, out |-> acc]
    ELSE IF tpl[i] # BACKSLASH THEN Expand(tpl, i + 1, g1, g2, Append(acc, tpl[i]))
    ELSE IF i = Len(tpl) THEN Raised
    ELSE IF IsDigit(tpl[i + 1]) THEN ExpandDigits(tpl, i, g1, g2, acc)
    ELSE IF tpl[i + 1] = 103 THEN Raised
    ELSE IF TemplateEscape(tpl[i + 1]) >= 0
    THEN Expand(tpl, i + 2, g1, g2, Append(acc, TemplateEscape(tpl[i + 1])))
    ELSE IF IsLetter(tpl[i + 1]) THEN Raised
    ELSE Expand(tpl, i + 2, g1, g2, acc \o <<BACKSLASH, tpl[i + 1]>>)

\* The template rf'\1>{value}</...>' of every call.
Template(value, close) == <<BACKSLASH, 49, 62>> \o value \o close

\* (tag)(?:/>|>(.*?)close) on an element: the start tag is the one of the
\* pattern, and the element is self-closing or holds text of one line ('.'
\* takes no line feed).
Matches(el, tag, close) ==
    /\ el.open = tag
    /\ el.close = close
    /\ el.selfclosing \/ \A i \in 1..Len(el.value) : el.value[i] # 10

\* What the expansion of the template makes of a matched element: the text
\* after the start tag and its end mark, up to the end tag.
NewValue(r, el) == SubSeq(r.out, Len(el.open) + 2, Len(r.out) - Len(el.close))

\* The text \1>...close is an element again when it begins with the start
\* tag and ends with the end tag the pattern spelled out (every template
\* does).
Rewritten(el, r) == Element(el.open, NewValue(r, el), el.close)

\* re.sub(pattern, template, hpf_xml): the template is parsed first, then
\* every match is replaced by its expansion.
RECURSIVE SubElements(_, _, _, _, _, _)
SubElements(hpf, k, tag, close, tpl, acc) ==
    IF k > Len(hpf) THEN [raised |-> FALSE, xml |-> acc]
    ELSE IF Matches(hpf[k], tag, close)
    THEN SubElements(hpf, k + 1, tag, close, tpl,
                     Append(acc, Rewritten(hpf[k],
                                           Expand(tpl, 1, hpf[k].open,
                                                  hpf[k].value, <<>>))))
    ELSE SubElements(hpf, k + 1, tag, close, tpl, Append(acc, hpf[k]))

SubField(res, given, tag, close, value) ==
    IF res.raised \/ ~given THEN res
    ELSE IF Expand(Template(value, close), 1, <<>>, <<>>, <<>>).raised
    THEN [raised |-> TRUE, xml |-> <<>>]
    ELSE SubElements(res.xml, 1, tag, close, Template(value, close), <<>>)

update_content_hpf(hpf, title, author, date_str, now) ==
    SubField(
        SubField(
            SubField(
                SubField(
                    SubField([raised |-> FALSE, xml |-> hpf],
                             title # <<>>, TITLE_TAG, TITLE_END, xml_escape(title)),
                    author # <<>>, CREATOR_TAG, META_END, xml_escape(author)),
                author # <<>>, LASTSAVEBY_TAG, META_END, xml_escape(author)),
            TRUE, MODIFIED_TAG, META_END, now),
        date_str # <<>>, DATE_TAG, META_END, xml_escape(date_str))

\* The texts an element of the given file may hold, and the values given.
OldValues == {<<111, 108, 100>>, <<97, 10, 98>>}
Titles  == {<<>>, <<84>>, <<92, 76, 97, 84, 101, 88>>}
Authors == {<<>>, <<65, 38, 66>>, <<82, 92, 68>>, <<92, 50>>}
Dates   == {<<>>, <<68>>}
Nows    == {<<50, 48, 50, 54, 45, 48, 49, 45, 48, 49, 84, 48, 48, 58, 48, 48, 58, 48, 48, 90>>, <<50, 48, 50, 54, 45, 48, 49, 45, 48, 49, 84, 48, 48, 58, 48, 48, 58, 48, 49, 90>>}

ElementsOf(tag, close) ==
    {SelfClosing(tag, close)} \cup {Element(tag, v, close) : v \in OldValues}

InitHpf ==
    /\ \E t \in ElementsOf(TITLE_TAG, TITLE_END),
          c \in ElementsOf(CREATOR_TAG, META_END),
          l \in ElementsOf(LASTSAVEBY_TAG, META_END),
          m \in ElementsOf(MODIFIED_TAG, META_END),
          d \in ElementsOf(DATE_TAG, META_END) :
          hpf_xml = <<t, c, Element(SUBJECT_TAG, <<111, 108, 100>>, META_END), l, m, d>>
    /\ \E title \in Titles, author \in Authors, date_str \in Dates, now \in Nows :
          hpf_args = [title |-> title, author |-> author, date_str |-> date_str,
                      now |-> now]
    /\ new_hpf_xml = <<>>
    /\ IdleLineseg /\ IdleTable /\ IdleConvert /\ IdleHeader /\ IdlePackage
    /\ IdleMath
    /\ pc = "start"

UpdateContentHpf ==
    /\ pc = "start"
    /\ new_hpf_xml' = update_content_hpf(hpf_xml, hpf_args.title, hpf_args.author,
                                         hpf_args.date_str, hpf_args.now)
    /\ pc' = "done"
    /\ UNCHANGED <<hpf_xml, hpf_args, varsLineseg, varsTable, varsConvert,
                   varsHeader, varsPackage, varsMath>>

NextHpf == UpdateContentHpf

SpecHpf == InitHpf /\ [][NextHpf]_vars

\* The elements of the file with the given start tag: before and after.
FieldsOf(hpf, tag) == SelectSeq(hpf, LAMBDA el : el.open = tag)

Kept(tag) == FieldsOf(new_hpf_xml.xml, tag) = FieldsOf(hpf_xml, tag)

SetTo(tag, value) ==
    \A k \in 1..Len(new_hpf_xml.xml) :
        new_hpf_xml.xml[k].open = tag =>
            /\ ~new_hpf_xml.xml[k].selfclosing
            /\ new_hpf_xml.xml[k].value = value

FiveTags == {TITLE_TAG, CREATOR_TAG, LASTSAVEBY_TAG, MODIFIED_TAG, DATE_TAG}

\* C12: every call of update_content_hpf returns the file with the
\* modification timestamp set to the current time; with an empty title the
\* title element is as it was; with an empty author the creator and the
\* last-saved-by elements are as they were, and with an author both hold it
\* (as XML text); with an empty date the date element is as it was; and
\* every element other than these five is as it was, in its place.
C12_FieldsByPresence ==
    pc = "done" =>
        /\ ~new_hpf_xml.raised
        /\ Len(new_hpf_xml.xml) = Len(hpf_xml)
        /\ SetTo(MODIFIED_TAG, hpf_args.now)
        /\ hpf_args.title = <<>> => Kept(TITLE_TAG)
        /\ hpf_args.author = <<>> => Kept(CREATOR_TAG) /\ Kept(LASTSAVEBY_TAG)
        /\ hpf_args.author # <<>> =>
              /\ SetTo(CREATOR_TAG, xml_escape(hpf_args.author))
              /\ SetTo(LASTSAVEBY_TAG, xml_escape(hpf_args.author))
        /\ hpf_args.date_str = <<>> => Kept(DATE_TAG)
        /\ \A k \in 1..Len(hpf_xml) :
               hpf_xml[k].open \notin FiveTags => new_hpf_xml.xml[k] = hpf_xml[k]

\* ---------------------------------------------------------------------------
\* A paragraph followed through the containers around it
\* ---------------------------------------------------------------------------

\* The document is one paragraph (text B) inside at most MaxDepth
\* containers, the outermost first; in the innermost one a block quote
\* (holding a paragraph of text A) comes before it or not.
MaxDepth == 3

ContainerKinds == {"BlockQuote", "Div", "BulletList", "OrderedList", "DefinitionList"}

Contain(kind, blks) ==
    CASE kind = "BlockQuote"     -> BlockQuote(blks)
      [] kind = "Div"            -> Div(blks)
      [] kind = "BulletList"     -> BulletList(<<blks>>)
      [] kind = "OrderedList"    -> OrderedList(3, <<blks>>)
      [] kind = "DefinitionList" -> DefinitionList(<< <<(<<Str(TxtA)>>), <<blks>> >> >>)

RECURSIVE Nested(_, _)
Nested(path, blks) ==
    IF path = <<>> THEN blks ELSE <<Contain(Head(path), Nested(Tail(path), blks))>>

Followed(after_quote) ==
    IF after_quote
    THEN <<BlockQuote(<<Para(<<Str(TxtA)>>)>>), Para(<<Str(TxtB)>>)>>
    ELSE <<Para(<<Str(TxtB)>>)>>

InitNest ==
    /\ IdleLineseg /\ IdleTable /\ IdleHeader /\ IdlePackage
    /\ IdleMath /\ IdleHpf
    /\ \E path \in SeqsUpTo(ContainerKinds, MaxDepth), after_quote \in BOOLEAN :
          /\ nesting = [path |-> path, after_quote |-> after_quote]
          /\ blocks = Nested(path, Followed(after_quote))
    /\ meta = <<>>
    /\ indent_level = 0
    /\ id_before = PARA_ID_SEED
    /\ para_id_counter = PARA_ID_SEED
    /\ content = <<>>
    /\ pc = "start"

ConvertNested ==
    /\ pc = "start"
    /\ \E r \in {convert_blocks(blocks, indent_level, para_id_counter)} :
          /\ content' = r.parts
          /\ para_id_counter' = r.ctr
    /\ pc' = "done"
    /\ UNCHANGED <<blocks, meta, indent_level, id_before, nesting, varsLineseg,
                   varsTable, varsHeader, varsPackage, varsMath, varsHpf>>

NextNest == ConvertNested

SpecNest == InitNest /\ [][NextNest]_vars

\* The number of block quotes and definitions on the path.
RECURSIVE QuoteDepth(_)
QuoteDepth(path) ==
    IF path = <<>> THEN 0
    ELSE (IF Head(path) \in {"BlockQuote", "DefinitionList"} THEN 1 ELSE 0)
         + QuoteDepth(Tail(path))

FullWidthSpaces(k) == [j \in 1..k |-> 12288]

\* The markers of the list items of which the paragraph is the first
\* element produced, the outermost first: the lists on the path that have
\* no definition list further in (its term comes first) when no block quote
\* comes before the paragraph.
RECURSIVE ItemMarkers(_)
ItemMarkers(path) ==
    IF path = <<>> THEN <<>>
    ELSE IF \E j \in 1..Len(path) : path[j] = "DefinitionList" THEN ItemMarkers(Tail(path))
    ELSE (CASE Head(path) = "BulletList"  -> <<8226, 32>>
            [] Head(path) = "OrderedList" -> <<51, 46, 32>>
            [] OTHER                      -> <<>>) \o ItemMarkers(Tail(path))

\* The paragraph followed is the last element produced.
FollowedRun == content[Len(content)].t

\* C15 (as stated): a paragraph reached through k block quotes or
\* definitions, with any number of Divs and lists in between, has as its
\* text run exactly k full-width spaces and then its text; also when a
\* nested block quote came before it.
C15_IndentIsQuoteDepth ==
    pc = "done" =>
        /\ content[Len(content)].kind = "p"
        /\ FollowedRun = FullWidthSpaces(QuoteDepth(nesting.path)) \o TxtB

\* C15 (amended): the text run of such a paragraph is the markers of the
\* list items of which it is the first element, the outermost first, then
\* exactly k full-width spaces, then its text; Divs and lists leave k as it
\* is, and after a nested block quote k is again that of the enclosing
\* blocks.
C15_IndentAfterItemMarkers ==
    pc = "done" =>
        /\ content[Len(content)].kind = "p"
        /\ FollowedRun =
               (IF nesting.after_quote THEN <<>> ELSE ItemMarkers(nesting.path))
               \o FullWidthSpaces(QuoteDepth(nesting.path)) \o TxtB
        /\ nesting.after_quote =>
               content[Len(content) - 1].t =
                   ItemMarkers(nesting.path)
                   \o FullWidthSpaces(QuoteDepth(nesting.path) + 1) \o TxtA

\* A paragraph two block quotes deep, with a Div in between, that follows a
\* nested block quote.
C15_Witness ==
    /\ pc = "done"
    /\ nesting.after_quote
    /\ nesting.path = <<"BlockQuote", "Div", "BlockQuote">>
    /\ FollowedRun = <<12288, 12288>> \o TxtB

====
